---- MODULE Spec2Model ----
(***************************************************************************)
(* Zylo: a tree-walking evaluator (internal/evaluator/evaluator.go) and a  *)
(* recursive-descent parser (package parser, kept in internal/sema/sema.go)*)
(* modelled as state machines.                                             *)
(*                                                                         *)
(*   SpecOps   - the pure binary operator table (applyOperator) and the    *)
(*               arithmetic builtins built on it                           *)
(*   SpecEval  - EvaluateProgram over a family of programs                 *)
(*   SpecParse - ParseProgram over bounded token streams                   *)
(***************************************************************************)
EXTENDS Integers, Sequences, FiniteSets, TLC

VARIABLES
    operator, left, right, via, result, opDone,   \* SpecOps
    prog, ev, pc, idx, ret, failed,               \* SpecEval
    toks, ps, ppc                                 \* SpecParse

opVars == <<operator, left, right, via, result, opDone>>
evVars == <<prog, ev, pc, idx, ret, failed>>
paVars == <<toks, ps, ppc>>
vars == <<operator, left, right, via, result, opDone,
          prog, ev, pc, idx, ret, failed, toks, ps, ppc>>

(***************************************************************************)
(* Runtime values.  Every value is a record of the same shape so that any  *)
(* two values can be compared: kind is the Go dynamic type, n/d carry the  *)
(* number (Integer n, Float n/d in lowest terms, Boolean 0/1) or the       *)
(* reference (List, Function, Class, Instance; BoundMethod n=instance,     *)
(* d=function), s carries the string or the builtin name.                  *)
(***************************************************************************)
MkVal(k, n, d, s) == [kind |-> k, n |-> n, d |-> d, s |-> s]
IntV(n) == MkVal("Integer", n, 1, "")
StrV(s) == MkVal("String", 0, 1, s)
BoolV(b) == MkVal("Boolean", IF b THEN 1 ELSE 0, 1, "")
NullV == MkVal("Null", 0, 1, "")
ListV(r) == MkVal("List", r, 1, "")
FuncV(r) == MkVal("Function", r, 1, "")
ClassV(r) == MkVal("Class", r, 1, "")
InstV(r) == MkVal("Instance", r, 1, "")
BoundV(i, f) == MkVal("BoundMethod", i, f, "")
BuiltinV(name, r) == MkVal("Builtin", r, 1, name)
BreakV == MkVal("Break", 0, 1, "")
ContinueV == MkVal("Continue", 0, 1, "")
\* the Go nil interface value
NilV == MkVal("nil", 0, 1, "")

Abs(x) == IF x < 0 THEN -x ELSE x

RECURSIVE Gcd(_, _)
Gcd(a, b) == IF b = 0 THEN a ELSE Gcd(b, a % b)

\* a float64 is modelled as the rational n/d, d > 0, in lowest terms
FloatV(n, d) ==
    LET g == Gcd(Abs(n), Abs(d))
        sgn == IF d < 0 THEN -1 ELSE 1
    IN  IF n = 0 THEN MkVal("Float", 0, 1, "")
        ELSE MkVal("Float", sgn * (n \div g), sgn * (d \div g), "")

\* Go integer division truncates toward zero
TruncDiv(a, b) ==
    LET q == Abs(a) \div Abs(b)
    IN  IF (a < 0) = (b < 0) THEN q ELSE -q

Digit(d) == CASE d = 0 -> "0" [] d = 1 -> "1" [] d = 2 -> "2" [] d = 3 -> "3"
              [] d = 4 -> "4" [] d = 5 -> "5" [] d = 6 -> "6" [] d = 7 -> "7"
              [] d = 8 -> "8" [] OTHER -> "9"

RECURSIVE NatToStr(_)
NatToStr(n) == IF n < 10 THEN Digit(n) ELSE NatToStr(n \div 10) \o Digit(n % 10)

\* fmt.Sprintf("%d", v)
FormatD(n) == IF n < 0 THEN "-" \o NatToStr(-n) ELSE NatToStr(n)

\* the decimal digits of rem/d after the point, at most k of them
RECURSIVE FracDigits(_, _, _)
FracDigits(rem, d, k) ==
    IF rem = 0 \/ k = 0 THEN ""
    ELSE Digit((rem * 10) \div d) \o FracDigits((rem * 10) % d, d, k - 1)

MaxFracDigits == 6

\* fmt.Sprintf("%g", v) for |v| in [1e-4, 1e6) or 0: shortest decimal, no exponent
FormatG(n, d) ==
    LET whole == Abs(n) \div d
        rem == Abs(n) % d
        sign == IF n < 0 THEN "-" ELSE ""
    IN  IF rem = 0 THEN sign \o NatToStr(whole)
        ELSE sign \o NatToStr(whole) \o "." \o FracDigits(rem, d, MaxFracDigits)

RECURSIVE JoinInspect(_, _, _)
RECURSIVE Inspect(_, _)
\* strings.Join(parts, ", ") over the Inspect() of the items from position i
JoinInspect(items, i, lists) ==
    IF i > Len(items) THEN ""
    ELSE Inspect(items[i], lists)
         \o (IF i < Len(items) THEN ", " ELSE "")
         \o JoinInspect(items, i + 1, lists)

\* ZyloObject.Inspect
Inspect(v, lists) ==
    CASE v.kind = "String" -> v.s
      [] v.kind = "Integer" -> FormatD(v.n)
      [] v.kind = "Float" -> FormatG(v.n, v.d)
      [] v.kind = "Boolean" -> IF v.n = 1 THEN "true" ELSE "false"
      [] v.kind = "Null" -> "null"
      [] v.kind = "List" -> "[" \o JoinInspect(lists[v.n], 1, lists) \o "]"
      [] v.kind = "Break" -> "break"
      [] v.kind = "Continue" -> "continue"
      [] OTHER -> v.kind

(***************************************************************************)
(* Results of an evaluation: (Value, error)                                *)
(***************************************************************************)
Ok(v) == [ok |-> TRUE, val |-> v, err |-> ""]
Err(msg) == [ok |-> FALSE, val |-> NilV, err |-> msg]

IsNum(v) == v.kind \in {"Integer", "Float"}
\* float64(x) of a numeric value as a pair <<numerator, denominator>>
Num(v) == v.n
Den(v) == IF v.kind = "Float" THEN v.d ELSE 1

\* isTruthy
isTruthy(v) ==
    CASE v.kind = "nil" -> FALSE
      [] v.kind = "Boolean" -> v.n = 1
      [] v.kind = "Integer" -> v.n # 0
      [] v.kind = "String" -> v.s # ""
      [] OTHER -> TRUE

\* the name %T prints for a value
GoType(v) == IF v.kind = "nil" THEN "<nil>"
             ELSE IF v.kind = "Builtin" THEN "*evaluator.BuiltinFunction"
             ELSE IF v.kind \in {"Function", "Class", "Instance"} THEN "*evaluator.Zylo" \o v.kind
             ELSE IF v.kind \in {"Break", "Continue"} THEN "*evaluator." \o v.kind \o "Value"
             ELSE "*evaluator." \o v.kind

\* applyOperator, the error after the switch
Unsupported(op, l, r) ==
    Err("operador '" \o op \o "' no soportado para tipos " \o GoType(l) \o " y " \o GoType(r))

\* applyOperator, case "+"
applyPlus(l, r) ==
    IF l.kind = "String" /\ r.kind = "String" THEN Ok(StrV(l.s \o r.s))
    ELSE IF l.kind = "String" /\ r.kind = "Integer" THEN Ok(StrV(l.s \o FormatD(r.n)))
    ELSE IF l.kind = "String" /\ r.kind = "Float" THEN Ok(StrV(l.s \o FormatG(r.n, r.d)))
    ELSE IF r.kind = "String" /\ l.kind = "Integer" THEN Ok(StrV(FormatD(l.n) \o r.s))
    ELSE IF r.kind = "String" /\ l.kind = "Float" THEN Ok(StrV(FormatG(l.n, l.d) \o r.s))
    ELSE IF l.kind = "Integer" /\ r.kind = "Integer" THEN Ok(IntV(l.n + r.n))
    ELSE IF IsNum(l) /\ IsNum(r)
         THEN Ok(FloatV(Num(l) * Den(r) + Num(r) * Den(l), Den(l) * Den(r)))
    ELSE Unsupported("+", l, r)

\* applyOperator, cases "-" and "*"
applyMinus(l, r) ==
    IF l.kind = "Integer" /\ r.kind = "Integer" THEN Ok(IntV(l.n - r.n))
    ELSE IF IsNum(l) /\ IsNum(r)
         THEN Ok(FloatV(Num(l) * Den(r) - Num(r) * Den(l), Den(l) * Den(r)))
    ELSE Unsupported("-", l, r)

applyTimes(l, r) ==
    IF l.kind = "Integer" /\ r.kind = "Integer" THEN Ok(IntV(l.n * r.n))
    ELSE IF IsNum(l) /\ IsNum(r)
         THEN Ok(FloatV(Num(l) * Num(r), Den(l) * Den(r)))
    ELSE Unsupported("*", l, r)

\* a division that forgets the zero test on a Float divisor: the quotient of
\* a float by 0.0 is an infinity, modelled as the value Inf
applyDivideNoFloatCheck(l, r) ==
    IF l.kind = "Integer" /\ r.kind = "Integer"
    THEN IF r.n = 0 THEN Err("división por cero") ELSE Ok(IntV(TruncDiv(l.n, r.n)))
    ELSE IF IsNum(l) /\ IsNum(r)
         THEN IF Num(r) = 0 THEN Ok(MkVal("Float", 0, 1, "Inf"))
              ELSE Ok(FloatV(Num(l) * Den(r), Den(l) * Num(r)))
    ELSE Unsupported("/", l, r)

\* applyOperator, case "/"
applyDivide(l, r) ==
    IF l.kind = "Integer" /\ r.kind = "Integer"
    THEN IF r.n = 0 THEN Err("división por cero") ELSE Ok(IntV(TruncDiv(l.n, r.n)))
    ELSE IF IsNum(l) /\ IsNum(r)
         THEN IF Num(r) = 0 THEN Err("división por cero")
              ELSE Ok(FloatV(Num(l) * Den(r), Den(l) * Num(r)))
    ELSE Unsupported("/", l, r)

\* applyOperator, cases "==" and "!="
applyEq(l, r) ==
    IF l.kind = "String" /\ r.kind = "String" THEN BoolV(l.s = r.s)
    ELSE IF IsNum(l) /\ IsNum(r) THEN BoolV(Num(l) * Den(r) = Num(r) * Den(l))
    ELSE IF l.kind = "Boolean" /\ r.kind = "Boolean" THEN BoolV(l.n = r.n)
    ELSE BoolV(FALSE)

applyNeq(l, r) ==
    IF l.kind = "String" /\ r.kind = "String" THEN BoolV(l.s # r.s)
    ELSE IF IsNum(l) /\ IsNum(r) THEN BoolV(Num(l) * Den(r) # Num(r) * Den(l))
    ELSE IF l.kind = "Boolean" /\ r.kind = "Boolean" THEN BoolV(l.n # r.n)
    ELSE BoolV(TRUE)

\* applyOperator, the ordering operators: numeric operands only
applyOrder(op, l, r) ==
    IF IsNum(l) /\ IsNum(r)
    THEN LET a == Num(l) * Den(r)
             b == Num(r) * Den(l)
         IN  Ok(BoolV(CASE op = "<" -> a < b
                        [] op = ">" -> a > b
                        [] op = "<=" -> a <= b
                        [] OTHER -> a >= b))
    ELSE Unsupported(op, l, r)

\* applyOperator
applyOperator(op, l, r) ==
    IF l.kind = "nil" \/ r.kind = "nil" THEN Err("cannot apply operator to nil values")
    ELSE CASE op = "+" -> applyPlus(l, r)
           [] op = "-" -> applyMinus(l, r)
           [] op = "*" -> applyTimes(l, r)
           [] op = "/" -> applyDivide(l, r)
           [] op = "==" -> Ok(applyEq(l, r))
           [] op = "!=" -> Ok(applyNeq(l, r))
           [] op \in {"<", ">", "<=", ">="} -> applyOrder(op, l, r)
           [] op = "&&" -> Ok(BoolV(isTruthy(l) /\ isTruthy(r)))
           [] op = "||" -> Ok(BoolV(isTruthy(l) \/ isTruthy(r)))
           [] OTHER -> Unsupported(op, l, r)

\* the builtins add, subtract, multiply, divide registered by InitBuiltins
ArithOp(name) == CASE name = "add" -> "+" [] name = "subtract" -> "-"
                   [] name = "multiply" -> "*" [] OTHER -> "/"

callArith(name, args) ==
    IF Len(args) # 2 THEN Err(name \o "() expects exactly 2 arguments")
    ELSE applyOperator(ArithOp(name), args[1], args[2])

(***************************************************************************)
(* The syntax tree (internal/ast/ast.go).  A node is a record with a kind; *)
(* statements carry an id used only to log what was executed.  An absent   *)
(* (nil) node is the record of kind "nil".                                 *)
(***************************************************************************)
Absent == [kind |-> "nil"]

Ident(name) == [kind |-> "Ident", name |-> name]
NumLit(v) == [kind |-> "Num", val |-> v]
StrLit(s) == [kind |-> "Str", s |-> s]
BoolLit(b) == [kind |-> "Bool", b |-> b]
NullLit == [kind |-> "Null"]
ThisExpr == [kind |-> "This"]
Call(fn, args) == [kind |-> "Call", fn |-> fn, args |-> args]
Member(obj, prop) == [kind |-> "Member", obj |-> obj, prop |-> prop]
ListLit(elems) == [kind |-> "List", elems |-> elems]
Index(l, i) == [kind |-> "Index", left |-> l, index |-> i]
Infix(op, l, r) == [kind |-> "Infix", op |-> op, left |-> l, right |-> r]
Prefix(op, r) == [kind |-> "Prefix", op |-> op, right |-> r]

Block(stmts) == [kind |-> "Block", stmts |-> stmts]
VarStmt(id, name, value) == [kind |-> "Var", id |-> id, name |-> name, value |-> value]
ExprStmt(id, e) == [kind |-> "ExprStmt", id |-> id, expr |-> e]
FuncStmt(id, name, params, body) ==
    [kind |-> "Func", id |-> id, name |-> name, params |-> params, body |-> body]
ReturnStmt(id, e) == [kind |-> "Return", id |-> id, value |-> e]
IfStmt(id, c, cons, alt) == [kind |-> "If", id |-> id, cond |-> c, cons |-> cons, alt |-> alt]
WhileStmt(id, c, body) == [kind |-> "While", id |-> id, cond |-> c, body |-> body]
ForInStmt(id, name, iter, body) ==
    [kind |-> "ForIn", id |-> id, name |-> name, iter |-> iter, body |-> body]
BreakStmt(id) == [kind |-> "Break", id |-> id]
ContinueStmt(id) == [kind |-> "Continue", id |-> id]
ClassStmt(id, name, attrs, methods) ==
    [kind |-> "Class", id |-> id, name |-> name, attrs |-> attrs, methods |-> methods]
TryStmt(id, body) == [kind |-> "Try", id |-> id, tryBlock |-> body]
ThrowStmt(id, e) == [kind |-> "Throw", id |-> id, value |-> e]
ImportStmt(id, name) == [kind |-> "Import", id |-> id, module |-> name]

\* the name %T prints for a node the evaluator has no case for
AstType(node) == IF node.kind = "Hash" THEN "*ast.HashLiteral" ELSE "*ast." \o node.kind

(***************************************************************************)
(* Evaluator state.  Environments, lists, functions, classes and instances *)
(* are Go heap objects: each lives in a table and is named by its index.   *)
(*   envs[i]    = [vars: name -> value, parent: index or 0]                *)
(*   lists[i]   = the Items of a List                                      *)
(*   funcs[i]   = a ZyloFunction [name, params, body, env]                 *)
(*   classes[i] = a ZyloClass [name, attrs, methods: name -> func, init]   *)
(*   insts[i]   = a ZyloInstance [class, fields]                           *)
(* env is Evaluator.env.  The remaining fields observe the run: trace is   *)
(* the ids of the statements executed, in order; scopeOK is false once an  *)
(* evaluation returned with another current environment than it was        *)
(* entered with; lost is true once a while loop exited with a variable     *)
(* not holding the last value assigned in its body; written is the last    *)
(* value assigned per name inside the running while loop; steps counts     *)
(* loop iterations and calls; diverged is set when steps passes MaxSteps;  *)
(* frameOK is false once a block or a call returned with an environment    *)
(* that existed when it was entered holding other bindings than before.    *)
(***************************************************************************)
MaxSteps == 12

EmptyMap == [x \in {} |-> NullV]
MapSet(m, k, v) == [x \in (DOMAIN m) \cup {k} |-> IF x = k THEN v ELSE m[x]]

BuiltinNames == {"show.log", "read.line", "read.int", "string", "len", "split",
                 "to_number", "zyloruntime.Split", "try", "getInput",
                 "add", "subtract", "multiply", "divide"}

\* the bindings InitBuiltins puts in the root environment
RootVars ==
    [x \in BuiltinNames \cup {"zyloruntime", "null"} |->
        IF x = "zyloruntime" THEN StrV("zyloruntime_namespace")
        ELSE IF x = "null" THEN NullV
        ELSE BuiltinV(x, 0)]

\* NewEnvironment
NewEnvironment == [vars |-> RootVars, parent |-> 0]

\* NewEvaluator: the root environment is envs[1]
NewEvaluator ==
    [envs |-> <<NewEnvironment>>, env |-> 1, lists |-> <<>>, funcs |-> <<>>,
     classes |-> <<>>, insts |-> <<>>, trace |-> <<>>, scopeOK |-> TRUE,
     lost |-> FALSE, written |-> EmptyMap, inLoop |-> FALSE,
     steps |-> 0, diverged |-> FALSE, fault |-> FALSE,
     mainCalls |-> 0, handlerCalls |-> 0, frameOK |-> TRUE]

\* a child environment that is its parent: no scope is created
NewChildEnvironmentShared(st, parent) == [st |-> st, id |-> parent]

\* Environment.NewChildEnvironment: allocates a scope whose parent is `parent`
NewChildEnvironment(st, parent) ==
    [st |-> [st EXCEPT !.envs = Append(@, [vars |-> EmptyMap, parent |-> parent])],
     id |-> Len(st.envs) + 1]

RECURSIVE Get(_, _, _)
\* Environment.Get: the binding of name in e or the nearest ancestor that has one
Get(envs, e, name) ==
    IF name \in DOMAIN envs[e].vars THEN [found |-> TRUE, val |-> envs[e].vars[name]]
    ELSE IF envs[e].parent # 0 THEN Get(envs, envs[e].parent, name)
    ELSE [found |-> FALSE, val |-> NilV]

RECURSIVE Owner(_, _, _)
\* the environment, e or its nearest ancestor, that binds name; e when none does
Owner(envs, e, name) ==
    IF name \in DOMAIN envs[e].vars \/ envs[e].parent = 0 THEN e
    ELSE Owner(envs, envs[e].parent, name)

\* a Set that replaces the binding where the name is bound
SetWhereBound(st, name, v) ==
    IF Get(st.envs, st.env, name).found
    THEN [st EXCEPT !.envs[Owner(st.envs, st.env, name)].vars = MapSet(@, name, v)]
    ELSE [st EXCEPT !.envs[st.env].vars = MapSet(@, name, v)]

\* Environment.Set on the current environment
Set(st, name, v) == [st EXCEPT !.envs[st.env].vars = MapSet(@, name, v)]
SetIn(st, e, name, v) == [st EXCEPT !.envs[e].vars = MapSet(@, name, v)]

RetOk(st, v) == [st |-> st, ok |-> TRUE, val |-> v, err |-> ""]
RetErr(st, msg) == [st |-> st, ok |-> FALSE, val |-> NilV, err |-> msg]
Ret(st, res) == [st |-> st, ok |-> res.ok, val |-> res.val, err |-> res.err]
\* a Go run-time panic (nil dereference): the run faults
RetFault(st, msg) == [st |-> [st EXCEPT !.fault = TRUE], ok |-> FALSE, val |-> NilV, err |-> msg]

NewList(st, items) ==
    [st |-> [st EXCEPT !.lists = Append(@, items)], val |-> ListV(Len(st.lists) + 1)]

Log(st, id) == [st EXCEPT !.trace = Append(@, id)]

\* one more loop iteration or call; past MaxSteps the run counts as diverged
Tick(st) == [st EXCEPT !.steps = @ + 1, !.diverged = @ \/ st.steps >= MaxSteps]

\* the characters of the String values programs iterate over or index
Chars(s) == CASE s = "" -> <<>>
              [] s = "a" -> <<"a">>
              [] s = "ab" -> <<"a", "b">>
              [] OTHER -> <<s>>

(***************************************************************************)
(* The evaluator.  Every operator takes the evaluator state and returns    *)
(* [st, ok, val, err]: the state after, and the Go pair (Value, error).    *)
(***************************************************************************)
RECURSIVE evaluateStatements(_, _, _, _)
RECURSIVE evaluateWhileStatement(_, _)
RECURSIVE evaluateWhileBody(_, _, _)
RECURSIVE evaluateForInItems(_, _, _, _)
RECURSIVE evaluateExpressions(_, _, _, _)
RECURSIVE evaluateClassAttributes(_, _, _, _)

\* e_m(...) is the call e.m(...) of a method of the evaluator that other methods
\* call back into; the calls are dispatched by EvaluatorCall, defined after
\* the methods
RECURSIVE EvaluatorCall(_, _, _, _)
e_evaluateStatement(stmt, st) == EvaluatorCall("evaluateStatement", stmt, <<>>, st)
e_evaluateExpression(exp, st) == EvaluatorCall("evaluateExpression", exp, <<>>, st)
e_evaluateBlockStatement(b, st) == EvaluatorCall("evaluateBlockStatement", b, <<>>, st)
e_callFunction(fn, args, st) == EvaluatorCall("callFunction", fn, args, st)
e_callZyloFunction(fn, args, st) == EvaluatorCall("callZyloFunction", fn, args, st)
e_callBoundMethod(bm, args, st) == EvaluatorCall("callBoundMethod", bm, args, st)
e_instantiateClass(cv, argExprs, st) == EvaluatorCall("instantiateClass", cv, argExprs, st)

\* records in scopeOK whether r left the current environment as it was on entry
ObserveScope(entry, r) == [r EXCEPT !.st.scopeOK = @ /\ (r.st.env = entry.env)]

\* records in frameOK whether r left every environment of entry as it was
ObserveFrame(entry, r) ==
    [r EXCEPT !.st.frameOK = @ /\ (\A e \in DOMAIN entry.envs : r.st.envs[e] = entry.envs[e])]
\* the two observations of a block or call that has returned
Observe(entry, r) == ObserveFrame(entry, ObserveScope(entry, r))

EvalBlock(b, st) == Observe(st, e_evaluateBlockStatement(b, st))
\* assignments made inside a callee are not assignments of the loop body
LeaveLoop(st) == [st EXCEPT !.inLoop = FALSE]
BackInLoop(entry, r) == [r EXCEPT !.st.inLoop = entry.inLoop, !.st.written = entry.written]

CallFn(fn, args, st) ==
    BackInLoop(st, Observe(st, e_callFunction(fn, args, LeaveLoop(st))))
Instantiate(c, args, st) ==
    BackInLoop(st, ObserveScope(st, e_instantiateClass(c, args, LeaveLoop(st))))

\* the parameters bound positionally in environment e; extra arguments are
\* ignored and missing ones leave the parameter unbound
RECURSIVE BindParams(_, _, _, _, _)
BindParams(st, e, params, args, i) ==
    IF i > Len(params) THEN st
    ELSE BindParams(IF i <= Len(args) THEN SetIn(st, e, params[i], args[i]) ELSE st,
                    e, params, args, i + 1)

\* evaluateIdentifier
evaluateIdentifier(exp, st) ==
    LET g == Get(st.envs, st.env, exp.name)
    IN  IF g.found THEN RetOk(st, g.val)
        ELSE RetErr(st, "variable no definida: " \o exp.name)

\* evaluateThisExpression
evaluateThisExpression(st) ==
    LET g == Get(st.envs, st.env, "this")
    IN  IF g.found THEN RetOk(st, g.val)
        ELSE RetErr(st, "'this' is not available in this context")

\* indexValue
indexValue(l, i, st) ==
    IF l.kind = "nil" THEN RetErr(st, "cannot index nil value")
    ELSE IF l.kind = "List"
    THEN IF i.kind # "Integer" THEN RetErr(st, "list index must be integer")
         ELSE IF i.n < 0 \/ i.n >= Len(st.lists[l.n]) THEN RetErr(st, "index out of bounds")
         ELSE RetOk(st, st.lists[l.n][i.n + 1])
    ELSE IF l.kind = "String"
    THEN IF i.kind # "Integer" THEN RetErr(st, "string index must be integer")
         ELSE IF i.n < 0 \/ i.n >= Len(Chars(l.s)) THEN RetErr(st, "index out of bounds")
         ELSE RetOk(st, StrV(Chars(l.s)[i.n + 1]))
    ELSE RetErr(st, "cannot index " \o GoType(l))

\* evaluateMemberExpression
evaluateMemberExpression(exp, st) ==
    IF exp.obj.kind = "nil" THEN RetErr(st, "nil object in member expression")
    ELSE
    LET dotted == IF exp.obj.kind = "Ident"
                  THEN Get(st.envs, st.env, exp.obj.name \o "." \o exp.prop)
                  ELSE [found |-> FALSE, val |-> NilV]
    IN  IF dotted.found THEN RetOk(st, dotted.val)
        ELSE
        LET r == e_evaluateExpression(exp.obj, st)
            obj == r.val
        IN  IF ~r.ok THEN r
            ELSE IF obj.kind = "nil" THEN RetErr(r.st, "cannot access member on nil object")
            ELSE IF obj.kind = "List"
            THEN IF exp.prop \in {"Get", "Append", "Len"}
                 THEN RetOk(r.st, BuiltinV("List." \o exp.prop, obj.n))
                 ELSE RetErr(r.st, "method not found on List: " \o exp.prop)
            ELSE IF obj.kind = "Instance"
            THEN LET inst == r.st.insts[obj.n]
                     class == r.st.classes[inst.class]
                 IN  IF exp.prop \in DOMAIN inst.fields
                     THEN RetOk(r.st, inst.fields[exp.prop])
                     ELSE IF exp.prop \in DOMAIN class.methods
                     THEN RetOk(r.st, BoundV(obj.n, class.methods[exp.prop]))
                     ELSE RetErr(r.st, "property not found on instance: " \o exp.prop)
            ELSE RetErr(r.st, "cannot access property '" \o exp.prop \o "' on " \o GoType(obj))

\* the argument loops of evaluateCallExpression and instantiateClass, and the
\* element loop of a list literal: left to right, stopping at the first error
evaluateExpressions(exps, i, acc, st) ==
    IF i > Len(exps) THEN [st |-> st, ok |-> TRUE, val |-> NilV, err |-> "", vals |-> acc]
    ELSE IF exps[i].kind = "nil"
    THEN [st |-> st, ok |-> FALSE, val |-> NilV, err |-> "nil argument", vals |-> acc]
    ELSE LET r == e_evaluateExpression(exps[i], st)
         IN  IF ~r.ok THEN [st |-> r.st, ok |-> FALSE, val |-> NilV, err |-> r.err, vals |-> acc]
             ELSE evaluateExpressions(exps, i + 1, Append(acc, r.val), r.st)

\* evaluateCallExpression
evaluateCallExpression(exp, st) ==
    IF exp.fn.kind = "nil" THEN RetErr(st, "nil function in call expression")
    ELSE LET f == e_evaluateExpression(exp.fn, st)
         IN  IF ~f.ok THEN f
             ELSE IF f.val.kind = "Class" THEN Instantiate(f.val, exp.args, f.st)
             ELSE LET a == evaluateExpressions(exp.args, 1, <<>>, f.st)
                  IN  IF ~a.ok THEN RetErr(a.st, a.err)
                      ELSE CallFn(f.val, a.vals, a.st)

\* an assignment that also stores into the field of an instance
evaluateInfixExpressionFieldStore(exp, st) ==
    IF exp.left.kind = "nil" THEN RetErr(st, "nil left operand in infix expression")
    ELSE IF exp.right.kind = "nil" THEN RetErr(st, "nil right operand in infix expression")
    ELSE IF exp.op = "=" /\ exp.left.kind = "Member"
    THEN LET o == e_evaluateExpression(exp.left.obj, st)
         IN  IF ~o.ok THEN o
             ELSE LET r == e_evaluateExpression(exp.right, o.st)
                  IN  IF ~r.ok THEN r
                      ELSE IF o.val.kind # "Instance"
                      THEN RetErr(r.st, "left side of assignment must be an identifier")
                      ELSE RetOk([r.st EXCEPT !.insts[o.val.n].fields =
                                                   MapSet(@, exp.left.prop, r.val)], r.val)
    ELSE IF exp.op = "="
    THEN IF exp.left.kind # "Ident"
         THEN RetErr(st, "left side of assignment must be an identifier")
         ELSE LET r == e_evaluateExpression(exp.right, st)
              IN  IF ~r.ok THEN r
                  ELSE IF ~Get(r.st.envs, r.st.env, exp.left.name).found
                  THEN RetErr(r.st, "variable no definida: " \o exp.left.name)
                  ELSE LET s1 == Set(r.st, exp.left.name, r.val)
                           s2 == IF s1.inLoop
                                 THEN [s1 EXCEPT !.written = MapSet(@, exp.left.name, r.val)]
                                 ELSE s1
                       IN  RetOk(s2, r.val)
    ELSE LET l == e_evaluateExpression(exp.left, st)
         IN  IF ~l.ok THEN l
             ELSE LET r == e_evaluateExpression(exp.right, l.st)
                  IN  IF ~r.ok THEN r
                      ELSE Ret(r.st, applyOperator(exp.op, l.val, r.val))

\* evaluateInfixExpression
evaluateInfixExpression(exp, st) ==
    IF exp.left.kind = "nil" THEN RetErr(st, "nil left operand in infix expression")
    ELSE IF exp.right.kind = "nil" THEN RetErr(st, "nil right operand in infix expression")
    ELSE IF exp.op = "="
    THEN IF exp.left.kind # "Ident"
         THEN RetErr(st, "left side of assignment must be an identifier")
         ELSE LET r == e_evaluateExpression(exp.right, st)
              IN  IF ~r.ok THEN r
                  ELSE IF ~Get(r.st.envs, r.st.env, exp.left.name).found
                  THEN RetErr(r.st, "variable no definida: " \o exp.left.name)
                  ELSE LET s1 == Set(r.st, exp.left.name, r.val)
                           s2 == IF s1.inLoop
                                 THEN [s1 EXCEPT !.written = MapSet(@, exp.left.name, r.val)]
                                 ELSE s1
                       IN  RetOk(s2, r.val)
    ELSE LET l == e_evaluateExpression(exp.left, st)
         IN  IF ~l.ok THEN l
             ELSE LET r == e_evaluateExpression(exp.right, l.st)
                  IN  IF ~r.ok THEN r
                      ELSE Ret(r.st, applyOperator(exp.op, l.val, r.val))

\* evaluatePrefixExpression
evaluatePrefixExpression(exp, st) ==
    IF exp.right.kind = "nil" THEN RetErr(st, "nil right operand in prefix expression")
    ELSE LET r == e_evaluateExpression(exp.right, st)
         IN  IF ~r.ok THEN r
             ELSE IF exp.op = "!" THEN RetOk(r.st, BoolV(~isTruthy(r.val)))
             ELSE IF exp.op = "-"
             THEN IF r.val.kind = "Integer" THEN RetOk(r.st, IntV(-r.val.n))
                  ELSE RetErr(r.st, "operador '-' no soportado para tipo " \o GoType(r.val))
             ELSE RetErr(r.st, "operador prefijo no soportado: " \o exp.op)

\* evaluateImportStatement
evaluateImportStatement(module, st) ==
    IF Get(st.envs, st.env, module).found THEN RetOk(st, NullV)
    ELSE IF module = "zyloruntime"
    THEN RetOk(Set(st, module, StrV("zyloruntime_module")), NullV)
    ELSE RetErr(st, "Module '" \o module \o "' not found")

\* evaluateExpression
evaluateExpression(exp, st) ==
    CASE exp.kind = "nil" -> RetErr(st, "nil expression passed to evaluator")
      [] exp.kind = "Ident" -> evaluateIdentifier(exp, st)
      [] exp.kind = "Str" -> RetOk(st, StrV(exp.s))
      [] exp.kind = "Num" -> RetOk(st, exp.val)
      [] exp.kind = "Bool" -> RetOk(st, BoolV(exp.b))
      [] exp.kind = "Null" -> RetOk(st, NullV)
      [] exp.kind = "Call" -> evaluateCallExpression(exp, st)
      [] exp.kind = "Member" -> evaluateMemberExpression(exp, st)
      [] exp.kind = "List" ->
            LET a == evaluateExpressions(exp.elems, 1, <<>>, st)
            IN  IF ~a.ok THEN RetErr(a.st, a.err)
                ELSE LET n == NewList(a.st, a.vals) IN RetOk(n.st, n.val)
      [] exp.kind = "Index" ->
            LET l == e_evaluateExpression(exp.left, st)
            IN  IF ~l.ok THEN l
                ELSE LET i == e_evaluateExpression(exp.index, l.st)
                     IN  IF ~i.ok THEN i ELSE indexValue(l.val, i.val, i.st)
      [] exp.kind = "Infix" -> evaluateInfixExpression(exp, st)
      [] exp.kind = "Prefix" -> evaluatePrefixExpression(exp, st)
      [] exp.kind = "This" -> evaluateThisExpression(st)
      [] exp.kind = "Import" -> evaluateImportStatement(exp.module, st)
      [] OTHER -> RetErr(st, "expresión no soportada: " \o AstType(exp))

\* a statement loop that a return statement ends with the returned value
evaluateStatementsUnwind(stmts, i, last, st) ==
    IF i > Len(stmts) THEN RetOk(st, last)
    ELSE LET r == e_evaluateStatement(stmts[i], st)
         IN  IF ~r.ok THEN r
             ELSE IF r.val.kind \in {"Break", "Continue"} \/ stmts[i].kind = "Return" THEN r
             ELSE evaluateStatements(stmts, i + 1, r.val, r.st)

\* the statement loop of evaluateBlockStatement: stops at the first error and
\* at the first Break or Continue, else yields the last statement's value
evaluateStatements(stmts, i, last, st) ==
    IF i > Len(stmts) THEN RetOk(st, last)
    ELSE LET r == e_evaluateStatement(stmts[i], st)
         IN  IF ~r.ok THEN r
             ELSE IF r.val.kind \in {"Break", "Continue"} THEN r
             ELSE evaluateStatements(stmts, i + 1, r.val, r.st)

\* a block that restores the environment only when it completes normally
evaluateBlockStatementNoDefer(b, st) ==
    IF b.kind = "nil" THEN RetFault(st, "nil block statement")
    ELSE LET c == NewChildEnvironment(st, st.env)
             r == evaluateStatements(b.stmts, 1, NullV, [c.st EXCEPT !.env = c.id])
         IN  IF r.ok THEN [r EXCEPT !.st.env = st.env] ELSE r

\* evaluateBlockStatement: a child environment for the block; the deferred
\* assignment restores the old one on every return
evaluateBlockStatement(b, st) ==
    IF b.kind = "nil" THEN RetFault(st, "nil block statement")
    ELSE LET c == NewChildEnvironment(st, st.env)
             r == evaluateStatements(b.stmts, 1, NullV, [c.st EXCEPT !.env = c.id])
         IN  [r EXCEPT !.st.env = st.env]

\* an if statement that keeps a Break or Continue of its block to itself
evaluateIfStatementSwallow(s, st) ==
    LET c == e_evaluateExpression(s.cond, st)
        r == IF isTruthy(c.val) THEN EvalBlock(s.cons, c.st)
             ELSE IF s.alt.kind # "nil" THEN EvalBlock(s.alt, c.st)
             ELSE RetOk(c.st, NullV)
    IN  IF ~c.ok THEN c
        ELSE IF r.ok /\ r.val.kind \in {"Break", "Continue"} THEN RetOk(r.st, NullV)
        ELSE r

\* evaluateIfStatement
evaluateIfStatement(s, st) ==
    LET c == e_evaluateExpression(s.cond, st)
    IN  IF ~c.ok THEN c
        ELSE IF isTruthy(c.val) THEN EvalBlock(s.cons, c.st)
        ELSE IF s.alt.kind # "nil" THEN EvalBlock(s.alt, c.st)
        ELSE RetOk(c.st, NullV)

\* the inner loop of evaluateWhileStatement over Body.Statements, run in the
\* current environment: Break is handed to the outer loop, Continue ends the pass
evaluateWhileBody(stmts, i, st) ==
    IF i > Len(stmts) THEN RetOk(st, NullV)
    ELSE LET r == e_evaluateStatement(stmts[i], st)
         IN  IF ~r.ok THEN r
             ELSE IF r.val.kind = "Break" THEN r
             ELSE IF r.val.kind = "Continue" THEN RetOk(r.st, NullV)
             ELSE evaluateWhileBody(stmts, i + 1, r.st)

\* evaluateWhileStatement
evaluateWhileStatement(s, st) ==
    LET t == Tick(st)
        c == e_evaluateExpression(s.cond, t)
    IN  IF t.diverged THEN RetErr(t, "diverged")
        ELSE IF ~c.ok THEN c
        ELSE IF ~isTruthy(c.val) THEN RetOk(c.st, NullV)
        ELSE IF s.body.kind = "nil" THEN RetFault(c.st, "nil while body")
        ELSE LET b == evaluateWhileBody(s.body.stmts, 1, c.st)
             IN  IF ~b.ok THEN b
                 ELSE IF b.val.kind = "Break" THEN RetOk(b.st, NullV)
                 ELSE evaluateWhileStatement(s, b.st)

\* runs the loop and records in lost whether, at a normal exit, a variable
\* bound before the loop and assigned in its body holds another value than
\* the last one assigned
EvalWhile(s, st) ==
    LET r == evaluateWhileStatement(s, [st EXCEPT !.inLoop = TRUE, !.written = EmptyMap])
        w == r.st.written
        bad == r.ok /\ \E x \in DOMAIN w :
                          /\ Get(st.envs, st.env, x).found
                          /\ Get(r.st.envs, r.st.env, x).val # w[x]
        merged == [x \in (DOMAIN st.written) \cup (DOMAIN w) |->
                      IF x \in DOMAIN w THEN w[x] ELSE st.written[x]]
    IN  [r EXCEPT !.st.lost = @ \/ bad,
                  !.st.inLoop = st.inLoop,
                  !.st.written = IF st.inLoop THEN merged ELSE EmptyMap]

\* an element loop that leaves the loop on Continue as it does on Break
evaluateForInItemsLeave(s, items, i, st) ==
    IF i > Len(items) THEN RetOk(st, NullV)
    ELSE LET t == Tick(st)
             r == EvalBlock(s.body, Set(t, s.name, items[i]))
         IN  IF t.diverged THEN RetErr(t, "diverged")
             ELSE IF ~r.ok THEN r
             ELSE IF r.val.kind \in {"Break", "Continue"} THEN RetOk(r.st, NullV)
             ELSE evaluateForInItems(s, items, i + 1, r.st)

\* the element loop of evaluateForInStatement: the loop variable is set in
\* the current environment and the body runs as a block
evaluateForInItems(s, items, i, st) ==
    IF i > Len(items) THEN RetOk(st, NullV)
    ELSE LET t == Tick(st)
             r == EvalBlock(s.body, Set(t, s.name, items[i]))
         IN  IF t.diverged THEN RetErr(t, "diverged")
             ELSE IF ~r.ok THEN r
             ELSE IF r.val.kind = "Break" THEN RetOk(r.st, NullV)
             ELSE evaluateForInItems(s, items, i + 1, r.st)

StrItems(s) == [i \in 1..Len(Chars(s)) |-> StrV(Chars(s)[i])]

\* evaluateForInStatement
evaluateForInStatement(s, st) ==
    LET r == e_evaluateExpression(s.iter, st)
    IN  IF ~r.ok THEN r
        ELSE IF r.val.kind = "List"
        THEN evaluateForInItems(s, r.st.lists[r.val.n], 1, r.st)
        ELSE IF r.val.kind = "String"
        THEN evaluateForInItems(s, StrItems(r.val.s), 1, r.st)
        ELSE RetErr(r.st, "cannot iterate over " \o GoType(r.val))

\* the attribute loop of evaluateClassStatement
evaluateClassAttributes(attrs, i, acc, st) ==
    IF i > Len(attrs) THEN [st |-> st, ok |-> TRUE, val |-> NilV, err |-> "", map |-> acc]
    ELSE IF attrs[i].value.kind = "nil"
    THEN evaluateClassAttributes(attrs, i + 1, MapSet(acc, attrs[i].name, NullV), st)
    ELSE LET r == e_evaluateExpression(attrs[i].value, st)
         IN  IF ~r.ok THEN [st |-> r.st, ok |-> FALSE, val |-> NilV, err |-> r.err, map |-> acc]
             ELSE evaluateClassAttributes(attrs, i + 1, MapSet(acc, attrs[i].name, r.val), r.st)

\* the ZyloFunction built for a declaration, closed over the current environment
NewFunction(st, decl) ==
    [st |-> [st EXCEPT !.funcs = Append(@, [name |-> decl.name, params |-> decl.params,
                                            body |-> decl.body, env |-> st.env])],
     ref |-> Len(st.funcs) + 1]

\* the method loop of evaluateClassStatement
RECURSIVE DefineMethods(_, _, _, _)
DefineMethods(methods, i, class, st) ==
    IF i > Len(methods) THEN [st |-> st, class |-> class]
    ELSE LET f == NewFunction(st, methods[i])
             c1 == [class EXCEPT !.methods = MapSet(@, methods[i].name, f.ref)]
             c2 == IF methods[i].name = "init" THEN [c1 EXCEPT !.init = f.ref] ELSE c1
         IN  DefineMethods(methods, i + 1, c2, f.st)

\* evaluateClassStatement
evaluateClassStatement(s, st) ==
    LET a == evaluateClassAttributes(s.attrs, 1, EmptyMap, st)
        m == DefineMethods(s.methods, 1,
                 [name |-> s.name, attrs |-> a.map, methods |-> EmptyMap, init |-> 0], a.st)
        s1 == [m.st EXCEPT !.classes = Append(@, m.class)]
    IN  IF ~a.ok THEN RetErr(a.st, a.err)
        ELSE RetOk(Set(s1, s.name, ClassV(Len(s1.classes))), NullV)

\* evaluateFuncStatement
evaluateFuncStatement(s, st) ==
    LET f == NewFunction(st, s)
    IN  RetOk(Set(f.st, s.name, FuncV(f.ref)), NullV)

\* evaluateVarStatement
evaluateVarStatement(s, st) ==
    IF s.value.kind = "nil" THEN RetOk(Set(st, s.name, NullV), NullV)
    ELSE LET r == e_evaluateExpression(s.value, st)
         IN  IF ~r.ok THEN r ELSE RetOk(Set(r.st, s.name, r.val), NullV)

\* evaluateTryStatement: the try block is run as a plain block
evaluateTryStatement(s, st) ==
    IF s.tryBlock.kind = "nil" THEN RetErr(st, "nil try block")
    ELSE EvalBlock(s.tryBlock, st)

\* evaluateThrowStatement
evaluateThrowStatement(s, st) == RetOk(st, NullV)

\* evaluateStatement on a nil pointer of statement type `of`: the cases that
\* test for nil report it, the others use the pointer
evaluateNilStatement(of, st) ==
    CASE of \in {"Var", "Func", "Return", "If", "While"} ->
             RetErr(st, CASE of = "Var" -> "nil var statement"
                          [] of = "Func" -> "nil func statement"
                          [] of = "Return" -> "nil return statement"
                          [] of = "If" -> "nil if statement"
                          [] OTHER -> "nil while statement")
      [] of \in {"ExprStmt", "Throw"} -> RetOk(st, NullV)
      [] of = "Break" -> RetOk(st, BreakV)
      [] of = "Continue" -> RetOk(st, ContinueV)
      [] OTHER -> RetFault(st, "nil pointer dereference")

\* evaluateStatement
evaluateStatement(stmt, st) ==
    IF stmt.kind = "nil" THEN RetErr(st, "nil statement")
    ELSE IF stmt.kind = "NilPtr" THEN evaluateNilStatement(stmt.of, st)
    ELSE
    LET s0 == Log(st, stmt.id)
    IN  CASE stmt.kind = "Var" -> evaluateVarStatement(stmt, s0)
          [] stmt.kind = "ExprStmt" ->
                IF stmt.expr.kind = "nil" THEN RetOk(s0, NullV)
                ELSE e_evaluateExpression(stmt.expr, s0)
          [] stmt.kind = "Func" -> evaluateFuncStatement(stmt, s0)
          [] stmt.kind = "Return" ->
                IF stmt.value.kind # "nil" THEN e_evaluateExpression(stmt.value, s0)
                ELSE RetOk(s0, NullV)
          [] stmt.kind = "If" -> evaluateIfStatement(stmt, s0)
          [] stmt.kind = "While" -> EvalWhile(stmt, s0)
          [] stmt.kind = "ForIn" -> evaluateForInStatement(stmt, s0)
          [] stmt.kind = "Break" -> RetOk(s0, BreakV)
          [] stmt.kind = "Continue" -> RetOk(s0, ContinueV)
          [] stmt.kind = "Class" -> evaluateClassStatement(stmt, s0)
          [] stmt.kind = "Try" -> evaluateTryStatement(stmt, s0)
          [] stmt.kind = "Throw" -> evaluateThrowStatement(stmt, s0)
          [] stmt.kind = "Import" -> evaluateImportStatement(stmt.module, s0)
          [] stmt.kind = "Block" -> EvalBlock(stmt, s0)
          [] OTHER -> RetErr(s0, "sentencia no soportada: " \o AstType(stmt))

\* a call whose environment hangs off the caller's current environment
callZyloFunctionDynamic(fn, args, st) ==
    LET f == st.funcs[fn.n]
        t == Tick(st)
        c == NewChildEnvironment(t, st.env)
        s1 == BindParams(c.st, c.id, f.params, args, 1)
        r == EvalBlock(f.body, [s1 EXCEPT !.env = c.id])
    IN  IF t.diverged THEN RetErr(t, "diverged")
        ELSE [r EXCEPT !.st.env = st.env]

\* callZyloFunction: the call environment is a child of the environment the
\* function captured; the deferred assignment restores the caller's
callZyloFunction(fn, args, st) ==
    LET f == st.funcs[fn.n]
        t == Tick(st)
        c == NewChildEnvironment(t, f.env)
        s1 == BindParams(c.st, c.id, f.params, args, 1)
        r == EvalBlock(f.body, [s1 EXCEPT !.env = c.id])
    IN  IF t.diverged THEN RetErr(t, "diverged")
        ELSE [r EXCEPT !.st.env = st.env]

\* callBoundMethod
callBoundMethod(bm, args, st) ==
    LET f == st.funcs[bm.d]
        t == Tick(st)
        c == NewChildEnvironment(t, f.env)
        s1 == BindParams(SetIn(c.st, c.id, "this", InstV(bm.n)), c.id, f.params, args, 1)
        r == EvalBlock(f.body, [s1 EXCEPT !.env = c.id])
    IN  IF t.diverged THEN RetErr(t, "diverged")
        ELSE [r EXCEPT !.st.env = st.env]

\* instantiateClass: the fields are the class's attribute values themselves
instantiateClass(cv, argExprs, st) ==
    LET class == st.classes[cv.n]
        s0 == [st EXCEPT !.insts = Append(@, [class |-> cv.n, fields |-> class.attrs])]
        inst == InstV(Len(s0.insts))
        a == evaluateExpressions(argExprs, 1, <<>>, s0)
        f == a.st.funcs[class.init]
        t == Tick(a.st)
        c == NewChildEnvironment(t, f.env)
        s1 == BindParams(SetIn(c.st, c.id, "this", inst), c.id, f.params, a.vals, 1)
        r == EvalBlock(f.body, [s1 EXCEPT !.env = c.id])
        back == [r EXCEPT !.st.env = a.st.env]
    IN  IF class.init = 0 THEN RetOk(s0, inst)
        ELSE IF ~a.ok THEN RetErr(a.st, a.err)
        ELSE IF t.diverged THEN RetErr(t, "diverged")
        ELSE IF ~back.ok THEN back
        ELSE RetOk(back.st, inst)

\* a try that hands the error of the body on after the handler has run
builtinTryRethrow(args, st) ==
    IF Len(args) # 2 THEN RetErr(st, "try() expects exactly 2 arguments")
    ELSE IF args[1].kind # "Function" THEN RetErr(st, "first argument to try() must be function")
    ELSE IF args[2].kind # "Function" THEN RetErr(st, "second argument to try() must be function")
    ELSE LET r == e_callZyloFunction(args[1], <<>>, st)
             h == e_callZyloFunction(args[2], <<StrV(r.err)>>,
                                   [r.st EXCEPT !.handlerCalls = @ + 1])
         IN  IF r.ok \/ r.st.diverged THEN r
             ELSE IF ~h.ok THEN h
             ELSE RetErr(h.st, r.err)

\* the builtin "try" of InitBuiltins
builtinTry(args, st) ==
    IF Len(args) # 2 THEN RetErr(st, "try() expects exactly 2 arguments")
    ELSE IF args[1].kind # "Function" THEN RetErr(st, "first argument to try() must be function")
    ELSE IF args[2].kind # "Function" THEN RetErr(st, "second argument to try() must be function")
    ELSE LET r == e_callZyloFunction(args[1], <<>>, st)
             h == e_callZyloFunction(args[2], <<StrV(r.err)>>,
                                   [r.st EXCEPT !.handlerCalls = @ + 1])
         IN  IF r.ok \/ r.st.diverged THEN r
             ELSE IF ~h.ok THEN h
             ELSE RetOk(h.st, NullV)

\* the builtin "string"
builtinString(args, st) ==
    IF Len(args) # 1 THEN RetErr(st, "string() espera exactamente 1 argumento")
    ELSE LET a == args[1]
         IN  CASE a.kind = "Integer" -> RetOk(st, StrV(FormatD(a.n)))
               [] a.kind = "Float" -> RetOk(st, StrV(FormatG(a.n, a.d)))
               [] a.kind = "String" -> RetOk(st, a)
               [] a.kind = "Boolean" -> RetOk(st, StrV(IF a.n = 1 THEN "true" ELSE "false"))
               [] OTHER -> RetOk(st, StrV("&{}"))

\* the builtin "len"
builtinLen(args, st) ==
    IF Len(args) # 1 THEN RetErr(st, "len() expects exactly 1 argument")
    ELSE IF args[1].kind = "List" THEN RetOk(st, IntV(Len(st.lists[args[1].n])))
    ELSE IF args[1].kind = "String" THEN RetOk(st, IntV(Len(Chars(args[1].s))))
    ELSE RetErr(st, "len() not supported for " \o GoType(args[1]))

\* the List methods built by evaluateMemberExpression, bound to list fn.n
listMethod(fn, args, st) ==
    LET items == st.lists[fn.n]
    IN  IF fn.s = "List.Get"
        THEN IF Len(args) # 1 THEN RetErr(st, "List.Get() expects exactly 1 argument")
             ELSE IF args[1].kind # "Integer" THEN RetErr(st, "List.Get() index must be integer")
             ELSE IF args[1].n < 0 \/ args[1].n >= Len(items) THEN RetErr(st, "index out of bounds")
             ELSE RetOk(st, items[args[1].n + 1])
        ELSE IF fn.s = "List.Append"
        THEN IF Len(args) # 1 THEN RetErr(st, "List.Append() expects exactly 1 argument")
             ELSE RetOk([st EXCEPT !.lists[fn.n] = Append(@, args[1])], NullV)
        ELSE RetOk(st, IntV(Len(items)))

\* BuiltinFunction.Fn.  The readers see an exhausted standard input; split,
\* to_number and zyloruntime.Split are not called by any program modelled here.
callBuiltin(fn, args, st) ==
    CASE fn.s = "show.log" -> RetOk(st, NullV)
      [] fn.s \in {"read.line", "getInput"} -> RetOk(st, StrV(""))
      [] fn.s = "read.int" -> RetOk(st, IntV(0))
      [] fn.s = "string" -> builtinString(args, st)
      [] fn.s = "len" -> builtinLen(args, st)
      [] fn.s = "try" -> builtinTry(args, st)
      [] fn.s \in {"add", "subtract", "multiply", "divide"} -> Ret(st, callArith(fn.s, args))
      [] fn.s \in {"List.Get", "List.Append", "List.Len"} -> listMethod(fn, args, st)
      [] OTHER -> RetErr(st, "builtin not modelled: " \o fn.s)

\* callFunction: dispatch on the dynamic type of the callee
callFunction(fn, args, st) ==
    CASE fn.kind = "nil" -> RetErr(st, "cannot call nil function")
      [] fn.kind = "Function" -> e_callZyloFunction(fn, args, st)
      [] fn.kind = "Builtin" -> callBuiltin(fn, args, st)
      [] fn.kind = "BoundMethod" -> e_callBoundMethod(fn, args, st)
      [] OTHER -> RetErr(st, "no se puede llamar a: " \o GoType(fn))

\* the methods of the evaluator that are called through e_m
EvaluatorCall(m, x, y, st) ==
    CASE m = "evaluateStatement" -> evaluateStatement(x, st)
      [] m = "evaluateExpression" -> evaluateExpression(x, st)
      [] m = "evaluateBlockStatement" -> evaluateBlockStatement(x, st)
      [] m = "callFunction" -> callFunction(x, y, st)
      [] m = "callZyloFunction" -> callZyloFunction(x, y, st)
      [] m = "callBoundMethod" -> callBoundMethod(x, y, st)
      [] OTHER -> instantiateClass(x, y, st)

(***************************************************************************)
(* The programs evaluated.  prog = [sc, a, b, c, d, e]: a scenario and the *)
(* small numbers that vary it.                                             *)
(***************************************************************************)
MaxParam == 1

N(n) == NumLit(IntV(n))
Assign(name, e) == Infix("=", Ident(name), e)
\* if (name == 0) { <boom> }: the guarded failure used to make a construct
\* return with an error for parameter value 0
FailIfZero(id, e, boom) ==
    IfStmt(id, Infix("==", e, N(0)), Block(<<ExprStmt(id \o ".boom", boom)>>), Absent)

\* a main to be called automatically, then blocks, calls, instantiations and
\* bound-method calls that return normally or with an error
ScopeProgram(p) == <<
    FuncStmt("s0", "main", <<>>,
             Block(<<FailIfZero("s0.if", N(p.e), Infix("+", BoolLit(TRUE), N(1))),
                     ReturnStmt("s0.ret", N(7))>>)),
    VarStmt("s1", "x", N(1)),
    IfStmt("s2", BoolLit(TRUE),
           Block(<<VarStmt("s2.y", "y", N(p.a)),
                   FailIfZero("s2.if", Ident("y"), Infix("/", N(1), Ident("y")))>>),
           Absent),
    FuncStmt("s3", "f", <<"p">>,
             Block(<<FailIfZero("s3.if", Ident("p"), Ident("undefinedVar")),
                     ReturnStmt("s3.ret", Ident("p"))>>)),
    ExprStmt("s4", Call(Ident("f"), <<N(p.b)>>)),
    ClassStmt("s5", "A", <<VarStmt("s5.v", "v", N(0))>>,
              <<FuncStmt("s5.init", "init", <<"q">>,
                         Block(<<FailIfZero("s5.init.if", Ident("q"),
                                            Infix("/", N(1), N(0)))>>)),
                FuncStmt("s5.m", "m", <<"q">>,
                         Block(<<FailIfZero("s5.m.if", Ident("q"), Ident("boom")),
                                 ReturnStmt("s5.m.ret", ThisExpr)>>))>>),
    VarStmt("s6", "o", Call(Ident("A"), <<N(p.c)>>)),
    ExprStmt("s7", Call(Member(Ident("o"), "m"), <<N(p.d)>>)),
    VarStmt("s8", "z", N(9)) >>

\* two closures made by two calls of make, then calls of each
ClosureProgram(p) == <<
    VarStmt("c0", "g", N(10)),
    FuncStmt("c1", "make", <<"start">>,
             Block(<<VarStmt("c1.c", "c", Ident("start")),
                     FuncStmt("c1.inc", "inc", <<>>,
                              Block(<<ExprStmt("inc.c", Assign("c", Infix("+", Ident("c"), N(1)))),
                                      ExprStmt("inc.g", Assign("g", Infix("+", Ident("g"), N(1)))),
                                      ReturnStmt("inc.ret", Ident("c"))>>)),
                     ReturnStmt("c1.ret", Ident("inc"))>>)),
    VarStmt("c2", "f1", Call(Ident("make"), <<N(p.a)>>)),
    VarStmt("c3", "f2", Call(Ident("make"), <<N(p.b)>>)),
    VarStmt("c4", "r1", Call(Ident("f1"), <<>>)),
    VarStmt("c5", "r2", Call(Ident("f1"), <<>>)),
    VarStmt("c6", "r3", Call(Ident("f2"), <<>>)),
    VarStmt("c7", "r4", Call(Ident(IF p.c = 0 THEN "f1" ELSE "f2"), <<>>)) >>

\* a while loop assigning to variables declared before it: x is assigned
\* directly in the body (p.b = 0) or inside an if in the body (p.b # 0)
WhileProgram(p) == <<
    VarStmt("w1", "x", N(0)),
    VarStmt("w2", "n", N(0)),
    WhileStmt("w3", Infix("<", Ident("n"), N(p.a)),
              Block(<<ExprStmt("w3.n", Assign("n", Infix("+", Ident("n"), N(1)))),
                      IF p.b = 0
                      THEN ExprStmt("w3.x", Assign("x", Infix("+", Ident("x"), Ident("n"))))
                      ELSE IfStmt("w3.if", BoolLit(TRUE),
                                  Block(<<ExprStmt("w3.x", Assign("x", Infix("+", Ident("x"), Ident("n"))))>>),
                                  Absent)>>)),
    VarStmt("w4", "after", Ident("x")) >>

\* the break of the loop: in the if of the body (nest 0), in an if inside it
\* (nest 1), or in the else branch of an if inside it (nest 2 and more)
BreakAt(nest) ==
    IF nest = 0 THEN Block(<<BreakStmt("brk"), ExprStmt("dead", Assign("hits", N(99)))>>)
    ELSE IF nest = 1
    THEN Block(<<IfStmt("b.in", BoolLit(TRUE), Block(<<BreakStmt("brk")>>), Absent),
                 ExprStmt("dead", Assign("hits", N(99)))>>)
    ELSE Block(<<IfStmt("b.in", BoolLit(FALSE), Block(<<>>),
                        Block(<<IfStmt("b.in2", N(1), Block(<<BreakStmt("brk")>>), Absent)>>)),
                 ExprStmt("dead", Assign("hits", N(99)))>>)

\* while (i < 3) { i = i + 1; if (i == a) { ...break... }; hits = hits + 1 }
BreakProgram(p) == <<
    VarStmt("b1", "i", N(0)),
    VarStmt("b2", "hits", N(0)),
    WhileStmt("b3", Infix("<", Ident("i"), N(3)),
              Block(<<ExprStmt("b3.i", Assign("i", Infix("+", Ident("i"), N(1)))),
                      IfStmt("b3.if", Infix("==", Ident("i"), N(p.a)), BreakAt(p.b), Absent),
                      ExprStmt("b3.hits", Assign("hits", Infix("+", Ident("hits"), N(1))))>>)),
    VarStmt("after", "seen", Ident("hits")) >>

\* two instances of a class with a List default, one of them appended to
IsolationProgram(p) == <<
    ClassStmt("i1", "Bag", <<VarStmt("i1.items", "items", ListLit(<<>>)),
                             VarStmt("i1.n", "n", N(p.a))>>, <<>>),
    VarStmt("i2", "one", Call(Ident("Bag"), <<>>)),
    VarStmt("i3", "two", Call(Ident("Bag"), <<>>)),
    ExprStmt("i4", Call(Member(Member(Ident("one"), "items"), "Append"), <<N(p.b)>>)),
    VarStmt("i5", "seen", Call(Member(Member(Ident("two"), "items"), "Len"), <<>>)) >>

\* f reads a name bound only where it is called from (p.a = 0: the caller's
\* parameter y; p.a = 1: the caller's local z) or bound where f was defined
\* (otherwise: the global g); the call is made from a function body (p.b = 0)
\* or from an if block inside it
LexicalName(p) == IF p.a = 0 THEN "y" ELSE IF p.a = 1 THEN "z" ELSE "g"
LexicalProgram(p) == <<
    VarStmt("l1", "g", N(1)),
    FuncStmt("l2", "f", <<>>, Block(<<ReturnStmt("l2.ret", Ident(LexicalName(p)))>>)),
    FuncStmt("l3", "caller", <<"y">>,
             Block(<<VarStmt("l3.z", "z", N(2)),
                     IF p.b = 0
                     THEN ReturnStmt("l3.ret", Call(Ident("f"), <<>>))
                     ELSE IfStmt("l3.if", BoolLit(TRUE),
                                 Block(<<ReturnStmt("l3.ret", Call(Ident("f"), <<>>))>>),
                                 Absent)>>)),
    VarStmt("l4", "r", Call(Ident("caller"), <<N(5)>>)) >>

\* main declared without parameters (p.a = 0), with one (1), bound to an
\* Integer (2), to a builtin (3), or not bound at all; the statement before
\* it fails for p.b = 0
MainProgram(p) == <<
    VarStmt("m1", "ran", N(0)),
    FailIfZero("m2", N(p.b), Ident("undefinedVar")),
    CASE p.a = 0 -> FuncStmt("m3", "main", <<>>,
                             Block(<<ExprStmt("m3.ran", Assign("ran", N(1)))>>))
      [] p.a = 1 -> FuncStmt("m3", "main", <<"x">>,
                             Block(<<ExprStmt("m3.ran", Assign("ran", N(1)))>>))
      [] p.a = 2 -> VarStmt("m3", "main", N(5))
      [] p.a = 3 -> VarStmt("m3", "main", Ident("len"))
      [] OTHER -> VarStmt("m3", "other", N(5)) >>

\* import of the module of the runtime (p.a = 0), of a name bound nowhere
\* (1), of a builtin (2) or of a user variable; then the same import again
\* (p.b = 0) or the import of the module of the runtime
ImportName(p) ==
    CASE p.a = 0 -> "zyloruntime" [] p.a = 1 -> "math" [] p.a = 2 -> "len" [] OTHER -> "x"
ImportProgram(p) == <<
    VarStmt("im1", "x", N(1)),
    ImportStmt("im2", ImportName(p)),
    ImportStmt("im3", IF p.b = 0 THEN ImportName(p) ELSE "zyloruntime"),
    VarStmt("im4", "after", N(2)) >>

\* throw p.a outside any try: as a top-level statement (p.b = 0) or in the
\* block of an if
ThrowProgram(p) == <<
    VarStmt("x1", "seen", N(0)),
    IF p.b = 0 THEN ThrowStmt("x2", N(p.a))
    ELSE IfStmt("x2.if", BoolLit(TRUE),
                Block(<<ThrowStmt("x2", N(p.a)), VarStmt("x2.next", "inner", N(1))>>),
                Absent),
    VarStmt("x3", "after", N(1)) >>

\* a try statement with a catch clause
TryCatchStmt(id, body, param, handler) ==
    [kind |-> "Try", id |-> id, tryBlock |-> body, catchParam |-> param, catchBlock |-> handler]

\* try { var a = 1; 1 / p.a; var b = 2 } catch (e) { var c = 3 }
TryProgram(p) == <<
    VarStmt("y1", "x", N(0)),
    TryCatchStmt("y2",
                 Block(<<VarStmt("y2.a", "a", N(1)),
                         ExprStmt("y2.div", Infix("/", N(1), N(p.a))),
                         VarStmt("y2.b", "b", N(2))>>),
                 "e",
                 Block(<<VarStmt("y2.catch", "c", N(3))>>)),
    VarStmt("y3", "after", N(1)) >>

\* a function whose body is a break (p.a = 0), a continue (1) or a plain
\* statement, outside any loop; its result is declared as x (p.b = 0) or
\* assigned to x
SentinelProgram(p) == <<
    VarStmt("k1", "x", N(0)),
    FuncStmt("k2", "f", <<>>,
             Block(<<CASE p.a = 0 -> BreakStmt("k2.brk")
                       [] p.a = 1 -> ContinueStmt("k2.cont")
                       [] OTHER -> ExprStmt("k2.plain", N(7))>>)),
    IF p.b = 0 THEN VarStmt("k3", "x", Call(Ident("f"), <<>>))
    ELSE ExprStmt("k3", Assign("x", Call(Ident("f"), <<>>))),
    VarStmt("k4", "after", N(1)) >>

\* var inner declared in the body of a while loop (p.a = 0), of a for-in
\* loop (1) or of an if, and read after the construct
BodyScopeProgram(p) == <<
    VarStmt("q1", "n", N(0)),
    CASE p.a = 0 -> WhileStmt("q2", Infix("<", Ident("n"), N(1)),
                              Block(<<ExprStmt("q2.n", Assign("n", Infix("+", Ident("n"), N(1)))),
                                      VarStmt("q2.inner", "inner", N(5 + p.b))>>))
      [] p.a = 1 -> ForInStmt("q2", "item", ListLit(<<N(1)>>),
                              Block(<<VarStmt("q2.inner", "inner", N(5 + p.b))>>))
      [] OTHER -> IfStmt("q2", BoolLit(TRUE),
                         Block(<<VarStmt("q2.inner", "inner", N(5 + p.b))>>), Absent),
    VarStmt("q3", "seen", Ident("inner")) >>

\* the elements the loops of JumpProgram run over
JumpItems == <<N(1), N(2), N(3)>>

\* the continue (p.a = 0) or break of a loop body: directly in the body
\* (nest 0), in an if of the body (nest 1) or in an if inside that if
JumpStmt(pre, p) ==
    IF p.a = 0 THEN ContinueStmt(pre \o ".cont") ELSE BreakStmt(pre \o ".brk")

JumpAt(pre, cond, p) ==
    IF p.b = 0 THEN JumpStmt(pre, p)
    ELSE IF p.b = 1 THEN IfStmt(pre \o ".if", cond, Block(<<JumpStmt(pre, p)>>), Absent)
    ELSE IfStmt(pre \o ".if", cond,
                Block(<<IfStmt(pre \o ".if2", BoolLit(TRUE), Block(<<JumpStmt(pre, p)>>), Absent)>>),
                Absent)

\* a while loop and a for-in loop of three iterations each, whose bodies
\* continue or break in iteration p.c + 1 (in every iteration when nest is 0)
JumpProgram(p) == <<
    VarStmt("j1", "i", N(0)),
    WhileStmt("jw", Infix("<", Ident("i"), N(Len(JumpItems))),
              Block(<<ExprStmt("jw.it", Assign("i", Infix("+", Ident("i"), N(1)))),
                      JumpAt("jw", Infix("==", Ident("i"), N(p.c + 1)), p),
                      ExprStmt("jw.rest", N(0))>>)),
    ForInStmt("jf", "item", ListLit(JumpItems),
              Block(<<ExprStmt("jf.it", Ident("item")),
                      JumpAt("jf", Infix("==", Ident("item"), N(p.c + 1)), p),
                      ExprStmt("jf.rest", N(0))>>)),
    VarStmt("j.after", "after", N(1)) >>

\* the statements of f's body after `return 5 + b`: none (p.a = 0), an
\* expression statement (1), a var statement (2); with p.a = 3 and more the
\* return sits in an if that an expression statement follows
ReturnBody(p) ==
    CASE p.a = 0 -> <<ReturnStmt("r.ret", N(5 + p.b))>>
      [] p.a = 1 -> <<ReturnStmt("r.ret", N(5 + p.b)), ExprStmt("r.tail", N(7))>>
      [] p.a = 2 -> <<ReturnStmt("r.ret", N(5 + p.b)), VarStmt("r.tail", "y", N(1))>>
      [] OTHER -> <<IfStmt("r.if", BoolLit(TRUE), Block(<<ReturnStmt("r.ret", N(5 + p.b))>>), Absent),
                    ExprStmt("r.tail", N(9))>>

\* func f() { return 5 + b ... }; var x = f()
ReturnProgram(p) == <<
    FuncStmt("r1", "f", <<>>, Block(ReturnBody(p))),
    VarStmt("r2", "x", Call(Ident("f"), <<>>)),
    VarStmt("r3", "after", N(1)) >>

\* the variable that holds the instance of MemberProgram
HolderName(p) == IF p.a = 0 THEN "obj" ELSE IF p.a = 1 THEN "show" ELSE "read"

\* class Reader { var log = 10 + b; func line() { this.log } }; an instance
\* in a variable; then its field log (p.c = 0), a call of its method line
\* (p.c = 1) or a member it does not have
MemberProgram(p) == <<
    ClassStmt("m1", "Reader", <<VarStmt("m1.log", "log", N(10 + p.b))>>,
              <<FuncStmt("m1.line", "line", <<>>,
                         Block(<<ExprStmt("m.body", Member(ThisExpr, "log"))>>))>>),
    VarStmt("m2", HolderName(p), Call(Ident("Reader"), <<>>)),
    VarStmt("m3", "got",
            CASE p.c = 0 -> Member(Ident(HolderName(p)), "log")
              [] p.c = 1 -> Call(Member(Ident(HolderName(p)), "line"), <<>>)
              [] OTHER -> Member(Ident(HolderName(p)), "missing")) >>

\* the write made inside the nested block or function body of FrameProgram
FrameWrite(p) ==
    CASE p.a = 0 -> VarStmt("fr.w", "x", N(10))
      [] p.a = 1 -> ExprStmt("fr.w", Assign("x", N(10)))
      [] p.a = 2 -> FuncStmt("fr.w", "g", <<>>, Block(<<>>))
      [] p.a = 3 -> ClassStmt("fr.w", "K", <<>>, <<>>)
      [] p.a = 4 -> ForInStmt("fr.w", "item", ListLit(<<N(7)>>), Block(<<>>))
      [] OTHER -> ImportStmt("fr.w", "zyloruntime")

\* x, g, K and item bound at top level; then a write to one of the names, or
\* an import, made in an if block (p.b = 0) or in the body of a called function
FrameProgram(p) == <<
    VarStmt("fr1", "x", N(1)),
    VarStmt("fr2", "g", N(2)),
    VarStmt("fr3", "K", N(3)),
    VarStmt("fr4", "item", N(4)),
    FuncStmt("fr5", "writer", <<>>, Block(<<FrameWrite(p)>>)),
    IF p.b = 0 THEN IfStmt("fr6", BoolLit(TRUE), Block(<<FrameWrite(p)>>), Absent)
    ELSE ExprStmt("fr6", Call(Ident("writer"), <<>>)),
    VarStmt("fr7", "after", N(1)) >>

\* the statement of Box's init: none of interest (p.a = 0), this.n = v,
\* this.extra = v, n = v, or var n = v
InitWrite(p) ==
    CASE p.a = 0 -> ExprStmt("fl.w", Ident("v"))
      [] p.a = 1 -> ExprStmt("fl.w", Infix("=", Member(ThisExpr, "n"), Ident("v")))
      [] p.a = 2 -> ExprStmt("fl.w", Infix("=", Member(ThisExpr, "extra"), Ident("v")))
      [] p.a = 3 -> ExprStmt("fl.w", Assign("n", Ident("v")))
      [] OTHER -> VarStmt("fl.w", "n", Ident("v"))

\* class Box { var n = 1 + b; var items = []; func init(v) { ... } };
\* var box = Box(9); then nothing (p.c = 0), box.n = 7, or box.extra = 7
FieldsProgram(p) == <<
    ClassStmt("fl1", "Box", <<VarStmt("fl1.n", "n", N(1 + p.b)),
                              VarStmt("fl1.items", "items", ListLit(<<>>))>>,
              <<FuncStmt("fl1.init", "init", <<"v">>, Block(<<InitWrite(p)>>))>>),
    VarStmt("fl2", "box", Call(Ident("Box"), <<N(9)>>)),
    CASE p.c = 0 -> ExprStmt("fl3", Call(Member(Member(Ident("box"), "items"), "Append"), <<N(5)>>))
      [] p.c = 1 -> ExprStmt("fl3", Infix("=", Member(Ident("box"), "n"), N(7)))
      [] OTHER -> ExprStmt("fl3", Infix("=", Member(Ident("box"), "extra"), N(7))),
    VarStmt("fl4", "seen", Member(Ident("box"), "n")) >>

\* the error of the body of TryCallProgram
BodyError == "variable no definida: missing"

\* func body() { missing } (p.a = 0; with p.a = 1 the error is raised in an
\* if block) or { 5 }; func handler(msg) that succeeds (p.b = 0), fails
\* whatever it is given (1), or fails when msg is the String of the body's
\* error and only then; var got = try(body, handler)
TryCallProgram(p) == <<
    FuncStmt("tc1", "body", <<>>,
             Block(CASE p.a = 0 -> <<ExprStmt("tc.body", Ident("missing"))>>
                     [] p.a = 1 -> <<IfStmt("tc.if", BoolLit(TRUE),
                                            Block(<<ExprStmt("tc.body", Ident("missing"))>>), Absent),
                                     ExprStmt("tc.dead", N(1))>>
                     [] OTHER -> <<ExprStmt("tc.body", N(5))>>)),
    FuncStmt("tc2", "handler", <<"msg">>,
             Block(CASE p.b = 0 -> <<ExprStmt("tc.handler", Ident("msg"))>>
                     [] p.b = 1 -> <<ExprStmt("tc.handler", Ident("absent"))>>
                     [] OTHER -> <<IfStmt("tc.handler", Infix("==", Ident("msg"), StrLit(BodyError)),
                                          Block(<<ExprStmt("tc.same", Ident("reached"))>>), Absent)>>)),
    VarStmt("tc3", "got", Call(Ident("try"), <<Ident("body"), Ident("handler")>>)),
    VarStmt("tc4", "after", N(1)) >>

\* the program of a run: one of the scenarios, or (sc = "parsed") the
\* statements the parser has returned
Program(p) ==
    CASE p.sc = "scope" -> ScopeProgram(p)
      [] p.sc = "parsed" -> ps.stmts
      [] p.sc = "throw" -> ThrowProgram(p)
      [] p.sc = "trycall" -> TryCallProgram(p)
      [] p.sc = "fields" -> FieldsProgram(p)
      [] p.sc = "frame" -> FrameProgram(p)
      [] p.sc = "member" -> MemberProgram(p)
      [] p.sc = "return" -> ReturnProgram(p)
      [] p.sc = "jump" -> JumpProgram(p)
      [] p.sc = "bodyscope" -> BodyScopeProgram(p)
      [] p.sc = "sentinel" -> SentinelProgram(p)
      [] p.sc = "try" -> TryProgram(p)
      [] p.sc = "import" -> ImportProgram(p)
      [] p.sc = "main" -> MainProgram(p)
      [] p.sc = "closure" -> ClosureProgram(p)
      [] p.sc = "while" -> WhileProgram(p)
      [] p.sc = "break" -> BreakProgram(p)
      [] p.sc = "isolation" -> IsolationProgram(p)
      [] OTHER -> LexicalProgram(p)

P == 0..MaxParam
Zero == {0}
ProgSpace ==
    [sc : {"scope"}, a : P, b : P, c : P, d : P, e : P]
    \cup [sc : {"closure"}, a : P, b : P, c : P, d : Zero, e : Zero]
    \cup [sc : {"while"}, a : 0..(MaxParam + 1), b : P, c : Zero, d : Zero, e : Zero]
    \cup [sc : {"break"}, a : 0..(MaxParam + 3), b : 0..(MaxParam + 1), c : Zero, d : Zero, e : Zero]
    \cup [sc : {"isolation"}, a : P, b : P, c : Zero, d : Zero, e : Zero]
    \cup [sc : {"lexical"}, a : 0..(MaxParam + 1), b : P, c : Zero, d : Zero, e : Zero]
    \cup [sc : {"main"}, a : 0..(MaxParam + 3), b : P, c : Zero, d : Zero, e : Zero]
    \cup [sc : {"import"}, a : 0..(MaxParam + 2), b : P, c : Zero, d : Zero, e : Zero]
    \cup [sc : {"throw"}, a : P, b : P, c : Zero, d : Zero, e : Zero]
    \cup [sc : {"trycall"}, a : 0..(MaxParam + 1), b : 0..(MaxParam + 1), c : Zero, d : Zero, e : Zero]
    \cup [sc : {"fields"}, a : 0..(MaxParam + 3), b : P, c : 0..(MaxParam + 1), d : Zero, e : Zero]
    \cup [sc : {"frame"}, a : 0..(MaxParam + 4), b : P, c : Zero, d : Zero, e : Zero]
    \cup [sc : {"member"}, a : 0..(MaxParam + 1), b : P, c : 0..(MaxParam + 1), d : Zero, e : Zero]
    \cup [sc : {"return"}, a : 0..(MaxParam + 2), b : P, c : Zero, d : Zero, e : Zero]
    \cup [sc : {"jump"}, a : P, b : 0..(MaxParam + 1), c : P, d : Zero, e : Zero]
    \cup [sc : {"bodyscope"}, a : 0..(MaxParam + 1), b : P, c : Zero, d : Zero, e : Zero]
    \cup [sc : {"sentinel"}, a : 0..(MaxParam + 1), b : P, c : Zero, d : Zero, e : Zero]
    \cup [sc : {"try"}, a : P, b : Zero, c : Zero, d : Zero, e : Zero]

(***************************************************************************)
(* EvaluateProgram as a state machine: one step per top-level statement,   *)
(* then the automatic call of main.                                        *)
(***************************************************************************)
Statements == Program(prog)

\* an evaluation loop that records the error and goes on with the next statement
AfterStatementKeepGoing(r, i) ==
    [pc |-> "run", idx |-> i + 1, ret |-> IF r.ok THEN <<>> ELSE <<r.err>>]

\* EvaluateProgram, lines 415-418: an error ends the run and is returned
AfterStatement(r, i) ==
    IF ~r.ok THEN [pc |-> "done", idx |-> i, ret |-> <<r.err>>]
    ELSE [pc |-> "run", idx |-> i + 1, ret |-> <<>>]

EvalInit ==
    /\ prog \in ProgSpace
    /\ ev = NewEvaluator
    /\ pc = "run"
    /\ idx = 1
    /\ ret = <<>>
    /\ failed = 0

\* one iteration of the statement loop of EvaluateProgram
TopStatement ==
    /\ pc = "run"
    /\ idx <= Len(Statements)
    /\ \E r \in {e_evaluateStatement(Statements[idx], ev)} :
       \E n \in {AfterStatement(r, idx)} :
           /\ ev' = r.st
           /\ IF r.st.diverged
              THEN pc' = "diverged" /\ idx' = idx /\ ret' = ret /\ failed' = failed
              ELSE /\ pc' = n.pc
                   /\ idx' = n.idx
                   /\ ret' = ret \o n.ret
                   /\ failed' = IF ~r.ok /\ failed = 0 THEN idx ELSE failed
    /\ UNCHANGED <<prog, opVars, paVars>>

\* the statement loop is over
EndOfStatements ==
    /\ pc = "run"
    /\ idx > Len(Statements)
    /\ pc' = "main"
    /\ UNCHANGED <<prog, ev, idx, ret, failed, opVars, paVars>>

MainBinding == Get(ev.envs, ev.env, "main")
HasMain == MainBinding.found /\ MainBinding.val.kind = "Function"

\* EvaluateProgram, lines 422-430: main is bound to a ZyloFunction
CallMain ==
    /\ pc = "main"
    /\ HasMain
    /\ \E r \in {e_callZyloFunction(MainBinding.val, <<>>, ev)} :
           /\ ev' = [r.st EXCEPT !.mainCalls = @ + 1]
           /\ pc' = IF r.st.diverged THEN "diverged" ELSE "done"
           /\ ret' = IF r.ok \/ r.st.diverged THEN ret ELSE Append(ret, r.err)
    /\ UNCHANGED <<prog, idx, failed, opVars, paVars>>

\* no main, or main is not a ZyloFunction
SkipMain ==
    /\ pc = "main"
    /\ ~HasMain
    /\ pc' = "done"
    /\ UNCHANGED <<prog, ev, idx, ret, failed, opVars, paVars>>

(***************************************************************************)
(* The operator table on its own: an operator and two operands are drawn,  *)
(* and applied either by the infix operator or by the arithmetic builtin.  *)
(***************************************************************************)
MaxOperand == 2

\* the one List of the operand set: [1, a]
OpsLists == << <<IntV(1), StrV("a")>> >>

Operands ==
    {IntV(n) : n \in -MaxOperand..MaxOperand}
    \cup {FloatV(n, 2) : n \in -MaxOperand..MaxOperand}
    \cup {StrV(""), StrV("a"), StrV("b1")}
    \cup {BoolV(TRUE), BoolV(FALSE), NullV, ListV(1)}

Operators == {"+", "-", "*", "/", "==", "!=", "<", ">", "<=", ">=", "&&", "||", "%"}

BuiltinOf(op) == CASE op = "+" -> "add" [] op = "-" -> "subtract"
                   [] op = "*" -> "multiply" [] OTHER -> "divide"

OpsIdle ==
    /\ operator = ""
    /\ left = NilV
    /\ right = NilV
    /\ via = "idle"
    /\ result = Err("")
    /\ opDone = TRUE

EvalIdle ==
    /\ prog = [sc |-> "idle", a |-> 0, b |-> 0, c |-> 0, d |-> 0, e |-> 0]
    /\ ev = NewEvaluator
    /\ pc = "idle"
    /\ idx = 0
    /\ ret = <<>>
    /\ failed = 0

OpsInit ==
    /\ operator \in Operators
    /\ left \in Operands
    /\ right \in Operands
    /\ via \in {"infix", "builtin"}
    /\ via = "builtin" => operator \in {"+", "-", "*", "/"}
    /\ result = Err("")
    /\ opDone = FALSE

\* left <operator> right, as evaluateInfixExpression applies it
ApplyInfix ==
    /\ ~opDone
    /\ via = "infix"
    /\ result' = applyOperator(operator, left, right)
    /\ opDone' = TRUE
    /\ UNCHANGED <<operator, left, right, via, evVars, paVars>>

\* add(left, right), subtract, multiply, divide
ApplyBuiltin ==
    /\ ~opDone
    /\ via = "builtin"
    /\ result' = callArith(BuiltinOf(operator), <<left, right>>)
    /\ opDone' = TRUE
    /\ UNCHANGED <<operator, left, right, via, evVars, paVars>>

(***************************************************************************)
(* The parser.  toks is the token stream the lexer delivers, without its   *)
(* final EOF: every position past the end reads as EOF, as the lexer keeps *)
(* returning EOF.  A parser state p is [pos, errors, stuck, stmts,         *)
(* iterations]: curToken is toks[pos] and peekToken is toks[pos + 1];      *)
(* stmts is Program.Statements and iterations the counter of               *)
(* ParseProgramWithTimeout.  stuck is set when a loop has made an          *)
(* iteration that consumed nothing and left its condition true: the parser *)
(* is deterministic in pos, so control never leaves that loop; from then   *)
(* on p is frozen and what the operators return is of no use.              *)
(* Every parse operator returns [p, node].  A statement parser that        *)
(* returns a nil pointer yields NilStmt: the pointer is wrapped in a       *)
(* non-nil ast.Statement.                                                  *)
(***************************************************************************)
Tok(type, lex) == [type |-> type, lex |-> lex, lit |-> NilV]
NumTok(n) == [type |-> "NUMBER", lex |-> FormatD(n), lit |-> IntV(n)]
StrTok(s) == [type |-> "STRING", lex |-> s, lit |-> StrV(s)]
EOFTok == Tok("EOF", "")

NilStmt(of) == [kind |-> "NilPtr", of |-> of, id |-> ""]
Hash(pairs) == [kind |-> "Hash", pairs |-> pairs]
R(p, node) == [p |-> p, node |-> node]

TokAt(i) == IF i \in 1..Len(toks) THEN toks[i] ELSE EOFTok
curToken(p) == TokAt(p.pos)
peekToken(p) == TokAt(p.pos + 1)
curTokenIs(p, t) == curToken(p).type = t
peekTokenIs(p, t) == peekToken(p).type = t
StmtId(p) == "t" \o FormatD(p.pos)

\* nextToken: at the end of the stream curToken stays EOF
nextToken(p) == IF p.stuck \/ p.pos > Len(toks) THEN p ELSE [p EXCEPT !.pos = @ + 1]

maxErrors == 100
\* a list of diagnostics that grows without limit
addErrorUncapped(p, msg) ==
    IF p.stuck THEN p ELSE [p EXCEPT !.errors = Append(@, msg)]

\* addError: the list stops growing at maxErrors
addError(p, msg) ==
    IF p.stuck \/ Len(p.errors) >= maxErrors THEN p
    ELSE [p EXCEPT !.errors = Append(@, msg)]

peekError(p, t) ==
    addError(p, "expected next token to be " \o t \o ", got " \o peekToken(p).type \o " instead")

\* expectPeek: [p, ok]
expectPeek(p, t) ==
    IF peekTokenIs(p, t) THEN [p |-> nextToken(p), ok |-> TRUE]
    ELSE [p |-> peekError(p, t), ok |-> FALSE]

RECURSIVE skipNewlines(_)
skipNewlines(p) ==
    IF curTokenIs(p, "NEWLINE") /\ ~p.stuck THEN skipNewlines(nextToken(p)) ELSE p

RECURSIVE skipPeekNewlines(_)
\* the loop of parseImportStatement: for p.peekTokenIs(NEWLINE) { p.nextToken() }
skipPeekNewlines(p) ==
    IF peekTokenIs(p, "NEWLINE") /\ ~p.stuck THEN skipPeekNewlines(nextToken(p)) ELSE p

LOWEST == 0
ASSIGN == 1
EQUALS == 2
COMPARES == 3
SUM == 4
PRODUCT == 5
PREFIX == 6
CALL == 7
INDEX == 8

\* the precedences table; a token without an entry has precedence LOWEST
precedences(t) ==
    CASE t = "EQUAL" -> ASSIGN
      [] t \in {"OR", "EQUAL_EQUAL", "BANG_EQUAL"} -> EQUALS
      [] t \in {"AND", "LESS", "LESS_EQUAL", "GREATER", "GREATER_EQUAL"} -> COMPARES
      [] t \in {"PLUS", "MINUS"} -> SUM
      [] t \in {"STAR", "SLASH", "PERCENT"} -> PRODUCT
      [] t \in {"LEFT_PAREN", "DOT"} -> CALL
      [] t = "LEFT_BRACKET" -> INDEX
      [] OTHER -> LOWEST
currentPrecedence(p) == precedences(curToken(p).type)
peekPrecedence(p) == precedences(peekToken(p).type)

\* the token types New registers a prefix function for
LiteralTypes == {"IDENTIFIER", "NUMBER", "STRING", "TRUE", "FALSE", "NIL"}
KeywordErrorTypes == {"ELIF", "RETURN", "VAR", "IF", "FUNC"}
SkipErrorTypes == {"COMMA", "DOT", "EQUAL", "LESS", "BANG_EQUAL", "AND", "RIGHT_PAREN", "EOF"}
PrefixTypes ==
    LiteralTypes \cup {"BANG", "MINUS", "PLUS", "LEFT_PAREN", "LEFT_BRACE", "LEFT_BRACKET",
                       "THIS", "SUPER", "IMPORT", "NEWLINE"}
    \cup KeywordErrorTypes \cup SkipErrorTypes
\* the token types New registers parseInfixExpression for
OperatorTypes == {"PLUS", "MINUS", "STAR", "SLASH", "PERCENT", "EQUAL_EQUAL", "BANG_EQUAL",
                  "LESS", "LESS_EQUAL", "GREATER", "GREATER_EQUAL", "AND", "OR", "EQUAL"}
InfixTypes == OperatorTypes \cup {"LEFT_PAREN", "LEFT_BRACKET", "DOT"}

\* the message of each dummy prefix function
PrefixErrorMessage(t) ==
    CASE t = "ELIF" -> "elif must be used after if statement"
      [] t = "RETURN" -> "return statement not allowed in expression"
      [] t = "VAR" -> "var statement not allowed in expression"
      [] t = "IF" -> "if statement not allowed in expression"
      [] t = "FUNC" -> "func statement not allowed in expression"
      [] t = "COMMA" -> "comma not allowed in expression"
      [] t = "DOT" -> "dot not allowed in expression"
      [] t = "EQUAL" -> "= not allowed in expression"
      [] t = "LESS" -> "< not allowed in expression"
      [] t = "BANG_EQUAL" -> "!= not allowed in expression"
      [] t = "AND" -> "&& not allowed in expression"
      [] t = "RIGHT_PAREN" -> ") not allowed in expression"
      [] OTHER -> "EOF not allowed in expression"

maxInfixIterations == 50
maxBlockIterations == 100
maxIterations == 1000
maxStatements == 1000


\* p_m(...) is the call p.m(...) of a method of the parser that other methods
\* call back into; the calls are dispatched by ParserCall, defined after the
\* methods
RECURSIVE ParserCall(_, _, _, _)
p_parseExpression(precedence, p) == ParserCall("parseExpression", p, precedence, <<>>)
p_parseStatement(p) == ParserCall("parseStatement", p, <<>>, <<>>)
p_parseBlockStatement(p) == ParserCall("parseBlockStatement", p, <<>>, <<>>)
p_parseCallExpression(p, fn) == ParserCall("parseCallExpression", p, fn, <<>>)
p_parseVarStatement(p) == ParserCall("parseVarStatement", p, <<>>, <<>>)
p_parseClassMember(p, attrs, methods) == ParserCall("parseClassMember", p, attrs, methods)

\* parseIdentifier, parseNumberLiteral, parseStringLiteral,
\* parseBooleanLiteral, parseNullLiteral: the node of curToken, which is consumed
parseLiteral(p) ==
    LET c == curToken(p)
        node == CASE c.type = "IDENTIFIER" -> Ident(c.lex)
                  [] c.type = "NUMBER" -> NumLit(IF c.lit = NilV THEN IntV(0) ELSE c.lit)
                  [] c.type = "STRING" -> StrLit(IF c.lit.kind = "String" THEN c.lit.s ELSE "")
                  [] c.type = "NIL" -> NullLit
                  [] OTHER -> BoolLit(c.type = "TRUE")
    IN  R(nextToken(p), node)

\* parsePrefixExpression
parsePrefixExpression(p) ==
    LET r == p_parseExpression(PREFIX, nextToken(p))
    IN  R(r.p, Prefix(curToken(p).lex, r.node))

\* parseInfixExpression
parseInfixExpression(p, l) ==
    LET r == p_parseExpression(currentPrecedence(p), nextToken(p))
    IN  R(r.p, Infix(curToken(p).lex, l, r.node))

\* parseGroupedExpression: the result of expectPeek is not looked at
parseGroupedExpression(p) ==
    LET e == p_parseExpression(LOWEST, nextToken(p))
        x == expectPeek(skipNewlines(e.p), "RIGHT_PAREN")
    IN  R(nextToken(x.p), e.node)

RECURSIVE parseCallArguments(_, _)
\* the loop of parseCallExpression: for p.peekTokenIs(COMMA); returns [p, list]
parseCallArguments(p, args) ==
    IF p.stuck \/ ~peekTokenIs(p, "COMMA") THEN [p |-> p, list |-> args]
    ELSE LET e == p_parseExpression(LOWEST, nextToken(nextToken(p)))
         IN  parseCallArguments(e.p, Append(args, e.node))

\* parseCallExpression
parseCallExpression(p, fn) ==
    LET first == p_parseExpression(LOWEST, nextToken(p))
        a == IF peekTokenIs(p, "RIGHT_PAREN") THEN [p |-> p, list |-> <<>>]
             ELSE parseCallArguments(first.p, <<first.node>>)
        x == expectPeek(skipNewlines(a.p), "RIGHT_PAREN")
    IN  IF ~x.ok THEN R(x.p, Absent)
        ELSE R(nextToken(x.p), Call(fn, a.list))

\* parseIndexExpression
parseIndexExpression(p, l) ==
    LET i == p_parseExpression(LOWEST, nextToken(p))
        x == expectPeek(skipNewlines(i.p), "RIGHT_BRACKET")
    IN  IF ~x.ok THEN R(x.p, Absent)
        ELSE R(nextToken(x.p), Index(l, i.node))

\* parseDotExpression
parseDotExpression(p, l) ==
    LET x == expectPeek(p, "IDENTIFIER")
        m == Member(l, curToken(x.p).lex)
    IN  IF ~x.ok THEN R(x.p, Absent)
        ELSE IF peekTokenIs(x.p, "LEFT_PAREN") THEN p_parseCallExpression(nextToken(x.p), m)
        ELSE R(x.p, m)

RECURSIVE parseExpressionListRest(_, _, _)
\* the loop of parseExpressionList: for p.peekTokenIs(COMMA); returns [p, list]
parseExpressionListRest(p, end, args) ==
    IF p.stuck \/ ~peekTokenIs(p, "COMMA") THEN [p |-> p, list |-> args]
    ELSE LET q == nextToken(nextToken(p))
             e == p_parseExpression(LOWEST, q)
         IN  IF curTokenIs(q, end) THEN [p |-> q, list |-> args]
             ELSE parseExpressionListRest(e.p, end,
                      IF e.node.kind = "nil" THEN args ELSE Append(args, e.node))

\* parseExpressionList: [p, list, ok]; ok is false where the code returns nil
parseExpressionList(p, end) ==
    LET q == nextToken(p)
        first == p_parseExpression(LOWEST, q)
        a == IF curTokenIs(q, end) THEN [p |-> q, list |-> <<>>]
             ELSE parseExpressionListRest(first.p, end,
                      IF first.node.kind = "nil" THEN <<>> ELSE <<first.node>>)
        x == expectPeek(a.p, end)
    IN  IF peekTokenIs(p, end) THEN [p |-> nextToken(p), list |-> <<>>, ok |-> TRUE]
        ELSE IF ~x.ok THEN [p |-> x.p, list |-> <<>>, ok |-> FALSE]
        ELSE [p |-> nextToken(x.p), list |-> a.list, ok |-> TRUE]

\* parseListLiteral
parseListLiteral(p) ==
    LET Close(l) == R(nextToken(l.p), ListLit(l.list))
    IN  IF peekTokenIs(p, "RIGHT_BRACKET") THEN R(nextToken(p), ListLit(<<>>))
        ELSE Close(parseExpressionList(p, "RIGHT_BRACKET"))

RECURSIVE parseHashPairs(_, _)
\* the loop of parseHashLiteral: for !p.curTokenIs(RIGHT_BRACE); [p, list, ok]
parseHashPairs(p, pairs) ==
    IF p.stuck \/ curTokenIs(p, "RIGHT_BRACE") THEN [p |-> p, list |-> pairs, ok |-> TRUE]
    ELSE LET key == p_parseExpression(LOWEST, p)
             x == expectPeek(key.p, "COLON")
             value == p_parseExpression(LOWEST, nextToken(x.p))
             more == Append(pairs, [key |-> key.node, value |-> value.node])
             fail(q) == [p |-> q, list |-> pairs, ok |-> FALSE]
         IN  IF key.node.kind = "nil" THEN fail(key.p)
             ELSE IF ~x.ok THEN fail(x.p)
             ELSE IF value.node.kind = "nil" THEN fail(value.p)
             ELSE IF peekTokenIs(value.p, "COMMA") THEN parseHashPairs(nextToken(value.p), more)
             ELSE IF ~peekTokenIs(value.p, "RIGHT_BRACE")
             THEN fail(addError(value.p, "expected ',' or '}' in hash literal"))
             ELSE parseHashPairs(value.p, more)

\* parseHashLiteral
parseHashLiteral(p) ==
    LET \* from the end of the loop on, h being the pairs parsed
        Close(h) == LET x == expectPeek(h.p, "RIGHT_BRACE")
                    IN  IF ~h.ok THEN R(h.p, Absent)
                        ELSE IF ~x.ok THEN R(x.p, Absent)
                        ELSE R(nextToken(x.p), Hash(h.list))
    IN  IF peekTokenIs(p, "RIGHT_BRACE") THEN R(nextToken(p), Hash(<<>>))
        ELSE Close(parseHashPairs(nextToken(p), <<>>))

\* parseImportExpression
parseImportExpression(p) ==
    LET x == expectPeek(p, "IDENTIFIER")
    IN  IF ~x.ok THEN R(x.p, Absent)
        ELSE R(x.p, ImportStmt(StmtId(p), curToken(x.p).lex))

\* the prefix function registered for the type of curToken
prefixParse(p) ==
    LET t == curToken(p).type
    IN  CASE t \in LiteralTypes -> parseLiteral(p)
          [] t \in {"BANG", "MINUS", "PLUS"} -> parsePrefixExpression(p)
          [] t = "LEFT_PAREN" -> parseGroupedExpression(p)
          [] t = "LEFT_BRACE" -> parseHashLiteral(p)
          [] t = "LEFT_BRACKET" -> parseListLiteral(p)
          [] t = "THIS" -> R(p, ThisExpr)
          [] t = "SUPER" -> R(p, Ident("super"))
          [] t = "IMPORT" -> parseImportExpression(p)
          [] t \in KeywordErrorTypes -> R(addError(p, PrefixErrorMessage(t)), Ident("ERROR"))
          [] t = "NEWLINE" -> p_parseExpression(LOWEST, nextToken(p))
          [] OTHER -> R(nextToken(addError(p, PrefixErrorMessage(t))), Ident("ERROR"))

\* the infix function registered for the type of curToken
infixParse(p, l) ==
    LET t == curToken(p).type
    IN  CASE t = "LEFT_PAREN" -> p_parseCallExpression(p, l)
          [] t = "LEFT_BRACKET" -> parseIndexExpression(p, l)
          [] t = "DOT" -> parseDotExpression(p, l)
          [] OTHER -> parseInfixExpression(p, l)

RECURSIVE parseInfixLoop(_, _, _, _)
\* the loop of parseExpression: for precedence < p.peekPrecedence() && iterations < 50
parseInfixLoop(precedence, p, l, iterations) ==
    IF p.stuck \/ ~(precedence < peekPrecedence(p)) \/ iterations >= maxInfixIterations
    THEN R(p, l)
    ELSE IF peekToken(p).type \notin InfixTypes THEN R(p, l)
    ELSE LET Again(n) == IF n.node.kind = "nil" THEN R(n.p, l)
                          ELSE parseInfixLoop(precedence, n.p, n.node, iterations + 1)
         IN  Again(infixParse(nextToken(p), l))

\* parseExpression
parseExpression(precedence, p0) ==
    LET p == skipNewlines(p0)
        t == curToken(p).type
        \* from "leftExp := prefix()" on, l being what prefix() returned
        Infixes(l) == IF l.node.kind = "nil" THEN l
                      ELSE parseInfixLoop(precedence, l.p, l.node, 0)
    IN  IF t \notin PrefixTypes
        THEN IF t \in {"NEWLINE", "RIGHT_BRACKET"} THEN R(p, Absent)
             ELSE R(addError(p, "no prefix parse function for " \o t \o " found"), Absent)
        ELSE Infixes(prefixParse(p))

\* parseImportStatement
parseImportStatement(p) ==
    LET x == expectPeek(p, "IDENTIFIER")
    IN  IF ~x.ok THEN R(x.p, NilStmt("Import"))
        ELSE R(skipPeekNewlines(x.p), ImportStmt(StmtId(p), curToken(x.p).lex))

\* parseVarStatement
parseVarStatement(p) ==
    LET x == expectPeek(skipNewlines(p), "IDENTIFIER")
        \* the optional ';' and the statement returned
        End(p3, value) ==
            R(IF peekTokenIs(p3, "SEMICOLON") THEN nextToken(p3) ELSE p3,
              VarStmt(StmtId(p), curToken(x.p).lex, value))
        \* from "if p.peekTokenIs(lexer.EQUAL)" on, p2 being the parser after
        \* the name and its type
        Value(p2) ==
            LET v == p_parseExpression(LOWEST, nextToken(nextToken(p2)))
            IN  IF peekTokenIs(p2, "EQUAL") THEN End(v.p, v.node) ELSE End(p2, Absent)
        \* the optional type ": T" or ": T<U>", p1 being the parser after the name
        Type(p1) ==
            LET typed == peekTokenIs(p1, "COLON")
                ty == expectPeek(nextToken(p1), "IDENTIFIER")
                generic == expectPeek(expectPeek(nextToken(ty.p), "IDENTIFIER").p, "GREATER").p
            IN  IF typed /\ ~ty.ok THEN R(ty.p, NilStmt("Var"))
                ELSE Value(IF ~typed THEN p1
                           ELSE IF peekTokenIs(ty.p, "LESS") THEN generic ELSE ty.p)
    IN  IF ~x.ok THEN R(x.p, NilStmt("Var"))
        ELSE Type(skipNewlines(x.p))

\* parseReturnStatement
parseReturnStatement(p) ==
    LET q == nextToken(p)
        bare == curToken(q).type \in {"SEMICOLON", "NEWLINE", "RIGHT_BRACE"}
        v == p_parseExpression(LOWEST, q)
        p1 == IF bare THEN q ELSE v.p
        p2 == IF peekTokenIs(p1, "SEMICOLON") THEN nextToken(p1) ELSE p1
    IN  R(p2, ReturnStmt(StmtId(p), IF bare THEN Absent ELSE v.node))

\* parseExpressionStatement
parseExpressionStatement(p) ==
    LET e == p_parseExpression(LOWEST, p)
    IN  IF curToken(p).type \in {"RIGHT_PAREN", "ELSE", "CATCH"} THEN R(p, NilStmt("ExprStmt"))
        ELSE IF e.node.kind = "nil" THEN R(e.p, NilStmt("ExprStmt"))
        ELSE R(IF peekTokenIs(e.p, "SEMICOLON") THEN nextToken(e.p) ELSE e.p,
               ExprStmt(StmtId(p), e.node))

\* if p.peekTokenIs(COLON) { p.nextToken(); p.nextToken() }: a parameter's type
skipParameterType(p) == IF peekTokenIs(p, "COLON") THEN nextToken(nextToken(p)) ELSE p

RECURSIVE parseFunctionParametersRest(_, _)
\* the loop of parseFunctionParameters: for p.peekTokenIs(COMMA); [p, list]
parseFunctionParametersRest(p, identifiers) ==
    IF p.stuck \/ ~peekTokenIs(p, "COMMA") THEN [p |-> p, list |-> identifiers]
    ELSE LET q == nextToken(nextToken(p))
         IN  parseFunctionParametersRest(skipParameterType(q),
                                         Append(identifiers, curToken(q).lex))

\* parseFunctionParameters: [p, list, ok]; ok is false where the code returns nil
parseFunctionParameters(p) ==
    LET q == nextToken(p)
        r == parseFunctionParametersRest(skipParameterType(q), <<curToken(q).lex>>)
        x == expectPeek(skipNewlines(r.p), "RIGHT_PAREN")
    IN  IF peekTokenIs(p, "RIGHT_PAREN")
        THEN [p |-> nextToken(nextToken(p)), list |-> <<>>, ok |-> TRUE]
        ELSE IF ~x.ok THEN [p |-> x.p, list |-> <<>>, ok |-> FALSE]
        ELSE [p |-> nextToken(x.p), list |-> r.list, ok |-> TRUE]

\* parseFuncStatement: the '{' is consumed before parseBlockStatement looks for it
parseFuncStatement(p) ==
    LET n == expectPeek(p, "IDENTIFIER")
        l == expectPeek(n.p, "LEFT_PAREN")
        Done(params, body) ==
            R(body.p, FuncStmt(StmtId(p), curToken(n.p).lex, params.list, body.node))
        \* the body, p2 being the parser after the return type
        Body(params, p2) ==
            IF ~curTokenIs(p2, "LEFT_BRACE")
            THEN R(addError(p2, "expected '{' to start function body"), NilStmt("Func"))
            ELSE Done(params, p_parseBlockStatement(nextToken(p2)))
        \* the optional return type ": T" or "T"
        ReturnType(params) ==
            LET ty == expectPeek(nextToken(params.p), "IDENTIFIER")
            IN  IF peekTokenIs(params.p, "COLON") /\ ~ty.ok THEN R(ty.p, NilStmt("Func"))
                ELSE Body(params,
                          skipNewlines(IF peekTokenIs(params.p, "COLON") THEN ty.p
                                       ELSE IF peekTokenIs(params.p, "IDENTIFIER")
                                       THEN nextToken(params.p)
                                       ELSE params.p))
    IN  IF ~n.ok THEN R(n.p, NilStmt("Func"))
        ELSE IF ~l.ok THEN R(l.p, NilStmt("Func"))
        ELSE ReturnType(parseFunctionParameters(l.p))

\* the number of NEWLINE tokens in a row from curToken on
NewlineRun(p) ==
    CHOOSE k \in 0..Len(toks) :
        /\ \A j \in 0..(k - 1) : TokAt(p.pos + j).type = "NEWLINE"
        /\ TokAt(p.pos + k).type # "NEWLINE"

\* the passes of the block loop that only skip a NEWLINE, taken together:
\* as many as there are NEWLINE tokens in a row and iterations left
NewlinePasses(p, iterations) ==
    LET Least(run, room) == IF run < room THEN run ELSE room
    IN  Least(NewlineRun(p), maxBlockIterations - iterations)

RECURSIVE parseBlockStatements(_, _, _)
\* the loop of parseBlockStatement; [p, list]
parseBlockStatements(p, stmts, iterations) ==
    IF p.stuck \/ curTokenIs(p, "RIGHT_BRACE") \/ curTokenIs(p, "EOF")
    THEN [p |-> p, list |-> stmts]
    ELSE IF iterations + 1 > maxBlockIterations
    THEN [p |-> addError(p, "too many iterations in parseBlockStatement"), list |-> stmts]
    ELSE IF curTokenIs(p, "NEWLINE")
    THEN LET Skipped(n) == parseBlockStatements([p EXCEPT !.pos = @ + n], stmts, iterations + n)
         IN  Skipped(NewlinePasses(p, iterations))
    ELSE IF curToken(p).type \in {"RIGHT_PAREN", "ELSE", "CATCH"} THEN [p |-> p, list |-> stmts]
    ELSE LET s == p_parseStatement(p)
             more == IF s.node.kind = "nil" THEN stmts ELSE Append(stmts, s.node)
             q == IF curToken(s.p).type = curToken(p).type THEN nextToken(s.p) ELSE s.p
         IN  parseBlockStatements(q, more, iterations + 1)

\* parseBlockStatement
parseBlockStatement(p) ==
    LET b == parseBlockStatements(nextToken(p), <<>>, 0)
    IN  IF ~curTokenIs(p, "LEFT_BRACE")
        THEN R(addError(p, "expected '{' to start block"), Absent)
        ELSE R(IF curTokenIs(b.p, "RIGHT_BRACE") THEN nextToken(b.p) ELSE b.p, Block(b.list))

\* parseIfStatement
parseIfStatement(p) ==
    LET q == nextToken(p)
        hasParens == curTokenIs(q, "LEFT_PAREN")
        id == StmtId(p)
        \* the statement returned, p9 being the parser at its end
        Done(p9, c, cons, alt) == R(p9, IfStmt(id, c.node, cons.node, alt))
        \* "else if" and "elif": the nested if with its condition ec, e1 being
        \* the parser at the first token of that condition
        ElseIfBody(c, cons, e1, ec, e2) ==
            LET Nested(econs) ==
                    Done(econs.p, c, cons,
                         Block(<<IfStmt(StmtId(e1), ec.node, econs.node, Absent)>>))
            IN  IF ~curTokenIs(e2, "LEFT_BRACE")
                THEN R(addError(e2, "expected '{' after elif condition"), NilStmt("If"))
                ELSE Nested(p_parseBlockStatement(nextToken(e2)))
        ElseIf(c, cons, e1, ec) == ElseIfBody(c, cons, e1, ec, skipNewlines(ec.p))
        \* the else branch, e1 being the parser after "else", "else if" or "elif"
        ElseBlock(c, cons, alt) == Done(alt.p, c, cons, alt.node)
        Else(c, cons, e1) ==
            IF peekTokenIs(e1, "LEFT_BRACE")
            THEN ElseBlock(c, cons, p_parseBlockStatement(expectPeek(e1, "LEFT_BRACE").p))
            ELSE ElseIf(c, cons, e1, p_parseExpression(LOWEST, e1))
        AfterElse(c, cons, e0) == Else(c, cons, IF curTokenIs(e0, "IF") THEN nextToken(e0) ELSE e0)
        \* from the end of the consequence on
        Alternative(c, cons) ==
            IF ~(peekTokenIs(cons.p, "ELSE") \/ peekTokenIs(cons.p, "ELIF"))
            THEN Done(cons.p, c, cons, Absent)
            ELSE AfterElse(c, cons, nextToken(nextToken(cons.p)))
        \* the consequence, p1 being the parser after the condition
        Consequence(c, p1) ==
            IF ~curTokenIs(p1, "LEFT_BRACE")
            THEN R(addError(p1, "expected '{' after if condition"), NilStmt("If"))
            ELSE Alternative(c, p_parseBlockStatement(nextToken(p1)))
        \* from the end of the condition on
        Condition(c) ==
            LET x == expectPeek(skipNewlines(c.p), "RIGHT_PAREN")
            IN  IF hasParens /\ ~x.ok THEN R(x.p, NilStmt("If"))
                ELSE Consequence(c, skipNewlines(IF hasParens THEN x.p ELSE c.p))
    IN  Condition(p_parseExpression(LOWEST, IF hasParens THEN nextToken(q) ELSE q))

\* parseWhileStatement
parseWhileStatement(p) ==
    LET q == nextToken(p)
        hasParens == curTokenIs(q, "LEFT_PAREN")
        c == p_parseExpression(LOWEST, IF hasParens THEN nextToken(q) ELSE q)
        x == expectPeek(skipNewlines(c.p), "RIGHT_PAREN")
        p1 == skipNewlines(IF hasParens THEN x.p ELSE c.p)
        body == p_parseBlockStatement(nextToken(p1))
    IN  IF hasParens /\ ~x.ok THEN R(x.p, NilStmt("While"))
        ELSE IF ~curTokenIs(p1, "LEFT_BRACE")
        THEN R(addError(p1, "expected '{' after while condition"), NilStmt("While"))
        ELSE R(body.p, WhileStmt(StmtId(p), c.node, body.node))

\* parseForInStatement, entered with curToken on the loop variable
parseForInStatement(p, id) ==
    LET x == expectPeek(p, "IN")
        iter == p_parseExpression(LOWEST, nextToken(x.p))
        p1 == skipNewlines(iter.p)
        body == p_parseBlockStatement(nextToken(p1))
    IN  IF ~x.ok THEN R(x.p, NilStmt("ForIn"))
        ELSE IF ~curTokenIs(p1, "LEFT_BRACE")
        THEN R(addError(p1, "expected '{' after for in"), NilStmt("ForIn"))
        ELSE R(body.p, ForInStmt(id, curToken(p).lex, iter.node, body.node))

\* parseTraditionalForStatement: a placeholder statement, nothing consumed
parseTraditionalForStatement(p, id) == R(p, ExprStmt(id, Ident("FOR_LOOP")))

\* parseForStatement
parseForStatement(p) ==
    IF peekTokenIs(p, "IDENTIFIER")
    THEN IF peekTokenIs(nextToken(p), "IN") THEN parseForInStatement(nextToken(p), StmtId(p))
         ELSE parseTraditionalForStatement(nextToken(p), StmtId(p))
    ELSE parseTraditionalForStatement(p, StmtId(p))

RECURSIVE parseMethodParameters(_, _)
\* the parameter loop of parseFunctionStatement; [p, list]
parseMethodParameters(p, params) ==
    IF p.stuck \/ curTokenIs(p, "RIGHT_PAREN") \/ curTokenIs(p, "EOF")
    THEN [p |-> p, list |-> params]
    ELSE IF curTokenIs(p, "IDENTIFIER")
    THEN LET q == nextToken(p)
         IN  parseMethodParameters(IF curTokenIs(q, "COMMA") THEN nextToken(q) ELSE q,
                                   Append(params, curToken(p).lex))
    ELSE [p |-> addError(p, "expected parameter name"), list |-> params]

\* parseFunctionStatement: a method of a class body
parseFunctionStatement(p) ==
    LET q == nextToken(p)
        q2 == nextToken(q)
        nil(s) == R(s, NilStmt("Func"))
        Done(params, body) ==
            R(body.p, FuncStmt(StmtId(p), curToken(q).lex, params.list, body.node))
        \* the body, q5 being the parser after the return type
        Body(params, q5) ==
            IF ~curTokenIs(q5, "LEFT_BRACE")
            THEN nil(addError(q5, "expected '{' to start function body"))
            ELSE Done(params, p_parseBlockStatement(q5))
        \* the optional return type ": T", q3 being the parser after the ')'
        ReturnType(params, q3) ==
            LET hasType == peekTokenIs(q3, "COLON")
                q4 == nextToken(q3)
            IN  IF hasType /\ ~curTokenIs(q4, "IDENTIFIER")
                THEN nil(addError(q4, "expected return type identifier, got "
                                      \o curToken(q4).type))
                ELSE Body(params, skipNewlines(IF hasType THEN nextToken(q4) ELSE q3))
        \* from the end of the parameter loop on
        Parameters(params) ==
            IF ~curTokenIs(params.p, "RIGHT_PAREN")
            THEN nil(addError(params.p, "expected ')' after function parameters"))
            ELSE ReturnType(params, nextToken(params.p))
    IN  IF ~curTokenIs(q, "IDENTIFIER")
        THEN nil(addError(q, "expected function name after 'func'"))
        ELSE IF ~curTokenIs(q2, "LEFT_PAREN")
        THEN nil(addError(q2, "expected '(' after function name"))
        ELSE Parameters(parseMethodParameters(nextToken(q2), <<>>))

\* one iteration of the class-body loop of parseClassStatement, entered with
\* curToken neither '}' nor EOF; [p, attrs, methods]
parseClassMember(p, attrs, methods) ==
    LET t == curToken(p).type
        Attribute(a) ==
            [p |-> a.p, methods |-> methods,
             attrs |-> IF a.node.kind = "NilPtr" THEN attrs ELSE Append(attrs, a.node)]
        Method(m) ==
            [p |-> m.p, attrs |-> attrs,
             methods |-> IF m.node.kind = "NilPtr" THEN methods ELSE Append(methods, m.node)]
    IN  CASE t = "NEWLINE" -> [p |-> nextToken(p), attrs |-> attrs, methods |-> methods]
          [] t = "VAR" -> Attribute(p_parseVarStatement(p))
          [] t = "FUNC" -> Method(parseFunctionStatement(p))
          [] OTHER -> [p |-> nextToken(p), attrs |-> attrs, methods |-> methods]

RECURSIVE parseClassBody(_, _, _)
\* the class-body loop: for curToken is neither '}' nor EOF.  The loop has no
\* counter and no forced advance: an iteration that leaves pos where it was
\* is followed by the same iteration again, for ever.
parseClassBody(p, attrs, methods) ==
    IF p.stuck \/ curTokenIs(p, "RIGHT_BRACE") \/ curTokenIs(p, "EOF")
    THEN [p |-> p, attrs |-> attrs, methods |-> methods]
    ELSE LET s == p_parseClassMember(p, attrs, methods)
         IN  IF s.p.pos = p.pos
             THEN [p |-> [s.p EXCEPT !.stuck = TRUE], attrs |-> attrs, methods |-> methods]
             ELSE parseClassBody(s.p, s.attrs, s.methods)

\* parseClassStatement
parseClassStatement(p) ==
    LET n == expectPeek(p, "IDENTIFIER")
        p1 == skipNewlines(nextToken(n.p))
        b == parseClassBody(nextToken(p1), <<>>, <<>>)
    IN  IF ~n.ok THEN R(n.p, NilStmt("Class"))
        ELSE IF ~curTokenIs(p1, "LEFT_BRACE")
        THEN R(addError(p1, "expected '{' after class name, got " \o curToken(p1).type),
               NilStmt("Class"))
        ELSE R(IF curTokenIs(b.p, "RIGHT_BRACE") THEN nextToken(b.p) ELSE b.p,
               ClassStmt(StmtId(p), curToken(n.p).lex, b.attrs, b.methods))

\* parseTryStatement: entered with curToken on TRY, which is not consumed
\* before '{' is looked for
parseTryStatement(p) ==
    LET p0 == skipNewlines(p)
        b == p_parseBlockStatement(nextToken(p0))
        p1 == skipNewlines(b.p)
        x == expectPeek(nextToken(nextToken(p1)), "RIGHT_PAREN")
        p2 == skipNewlines(IF peekTokenIs(p1, "LEFT_PAREN") THEN x.p ELSE nextToken(p1))
        c == p_parseBlockStatement(nextToken(p2))
    IN  IF ~curTokenIs(p0, "LEFT_BRACE")
        THEN R(addError(p0, "expected '{' after try"), NilStmt("Try"))
        ELSE IF ~curTokenIs(p1, "CATCH") THEN R(p1, TryStmt(StmtId(p), b.node))
        ELSE IF peekTokenIs(p1, "LEFT_PAREN") /\ ~x.ok THEN R(x.p, NilStmt("Try"))
        ELSE IF ~curTokenIs(p2, "LEFT_BRACE")
        THEN R(addError(p2, "expected '{' after catch"), NilStmt("Try"))
        ELSE R(c.p, TryStmt(StmtId(p), b.node))

\* parseThrowStatement
parseThrowStatement(p) ==
    LET e == p_parseExpression(LOWEST, nextToken(p))
    IN  R(e.p, ThrowStmt(StmtId(p), e.node))

\* parseStatement
parseStatement(p0) ==
    LET p == skipNewlines(p0)
        t == curToken(p).type
    IN  CASE t = "IMPORT" -> parseImportStatement(p)
          [] t = "VAR" -> p_parseVarStatement(p)
          [] t = "FUNC" -> parseFuncStatement(p)
          [] t = "RETURN" -> parseReturnStatement(p)
          [] t = "IF" -> parseIfStatement(p)
          [] t = "ELIF" -> R(addError(p, "elif without preceding if statement"), Absent)
          [] t = "WHILE" -> parseWhileStatement(p)
          [] t = "FOR" -> parseForStatement(p)
          [] t = "TRY" -> parseTryStatement(p)
          [] t = "CLASS" -> parseClassStatement(p)
          [] t = "BREAK" -> R(p, BreakStmt(StmtId(p)))
          [] t = "CONTINUE" -> R(p, ContinueStmt(StmtId(p)))
          [] t = "THROW" -> parseThrowStatement(p)
          [] t \in {"SEMICOLON", "NEWLINE", "RIGHT_BRACE"} -> R(p, Absent)
          [] OTHER -> parseExpressionStatement(p)

\* the methods of the parser that are called through p_m
ParserCall(m, p, x, y) ==
    CASE m = "parseExpression" -> parseExpression(x, p)
      [] m = "parseStatement" -> parseStatement(p)
      [] m = "parseBlockStatement" -> parseBlockStatement(p)
      [] m = "parseCallExpression" -> parseCallExpression(p, x)
      [] m = "parseVarStatement" -> parseVarStatement(p)
      [] OTHER -> parseClassMember(p, x, y)

(***************************************************************************)
(* The token streams parsed: seven sources, each of them whole, cut short  *)
(* at every length, with one token left out and with one token replaced by *)
(* any token of the alphabet, and every stream of at most MaxLen tokens    *)
(* over a short alphabet.                                                  *)
(***************************************************************************)
MaxLen == 3

Lexeme(t) ==
    CASE t = "PLUS" -> "+" [] t = "MINUS" -> "-" [] t = "STAR" -> "*" [] t = "SLASH" -> "/"
      [] t = "EQUAL" -> "=" [] t = "EQUAL_EQUAL" -> "==" [] t = "BANG_EQUAL" -> "!="
      [] t = "LESS" -> "<" [] t = "GREATER" -> ">" [] t = "BANG" -> "!"
      [] t = "AND" -> "&&" [] t = "OR" -> "||" [] t = "DOT" -> "." [] t = "COMMA" -> ","
      [] t = "COLON" -> ":" [] t = "SEMICOLON" -> ";" [] t = "NEWLINE" -> "\n"
      [] t = "LEFT_PAREN" -> "(" [] t = "RIGHT_PAREN" -> ")"
      [] t = "LEFT_BRACE" -> "{" [] t = "RIGHT_BRACE" -> "}"
      [] t = "LEFT_BRACKET" -> "[" [] t = "RIGHT_BRACKET" -> "]"
      [] t = "VAR" -> "var" [] t = "FUNC" -> "func" [] t = "CLASS" -> "class"
      [] t = "IF" -> "if" [] t = "ELSE" -> "else" [] t = "ELIF" -> "elif"
      [] t = "WHILE" -> "while" [] t = "FOR" -> "for" [] t = "IN" -> "in"
      [] t = "TRY" -> "try" [] t = "CATCH" -> "catch" [] t = "THROW" -> "throw"
      [] t = "RETURN" -> "return" [] t = "BREAK" -> "break" [] t = "CONTINUE" -> "continue"
      [] t = "IMPORT" -> "import" [] t = "THIS" -> "this" [] t = "TRUE" -> "true"
      [] t = "FALSE" -> "false" [] t = "NIL" -> "nil"
      [] OTHER -> ""
K(t) == Tok(t, Lexeme(t))
Id(name) == Tok("IDENTIFIER", name)

\* var x = 5; \n var y: Int = x
VarSource ==
    <<K("VAR"), Id("x"), K("EQUAL"), NumTok(5), K("SEMICOLON"), K("NEWLINE"),
      K("VAR"), Id("y"), K("COLON"), Id("Int"), K("EQUAL"), Id("x")>>
\* class A { \n var v = 0 \n func init(q) { this.v } \n }
ClassSource ==
    <<K("CLASS"), Id("A"), K("LEFT_BRACE"), K("NEWLINE"), K("VAR"), Id("v"), K("EQUAL"),
      NumTok(0), K("NEWLINE"), K("FUNC"), Id("init"), K("LEFT_PAREN"), Id("q"),
      K("RIGHT_PAREN"), K("LEFT_BRACE"), K("THIS"), K("DOT"), Id("v"), K("RIGHT_BRACE"),
      K("NEWLINE"), K("RIGHT_BRACE")>>
\* if x { y } else { z }
IfSource ==
    <<K("IF"), Id("x"), K("LEFT_BRACE"), Id("y"), K("RIGHT_BRACE"), K("ELSE"),
      K("LEFT_BRACE"), Id("z"), K("RIGHT_BRACE")>>
\* while (x < 1) { x = x + 1; break }
WhileSource ==
    <<K("WHILE"), K("LEFT_PAREN"), Id("x"), K("LESS"), NumTok(1), K("RIGHT_PAREN"),
      K("LEFT_BRACE"), Id("x"), K("EQUAL"), Id("x"), K("PLUS"), NumTok(1), K("SEMICOLON"),
      K("BREAK"), K("RIGHT_BRACE")>>
\* func f(a, b) { return a + b }
FuncSource ==
    <<K("FUNC"), Id("f"), K("LEFT_PAREN"), Id("a"), K("COMMA"), Id("b"), K("RIGHT_PAREN"),
      K("LEFT_BRACE"), K("RETURN"), Id("a"), K("PLUS"), Id("b"), K("RIGHT_BRACE")>>
\* x = [1, 2]; y = {x: 1} \n this.g(1, x)
ExprSource ==
    <<Id("x"), K("EQUAL"), K("LEFT_BRACKET"), NumTok(1), K("COMMA"), NumTok(2),
      K("RIGHT_BRACKET"), K("SEMICOLON"), Id("y"), K("EQUAL"), K("LEFT_BRACE"), Id("x"),
      K("COLON"), NumTok(1), K("RIGHT_BRACE"), K("NEWLINE"), K("THIS"), K("DOT"), Id("g"),
      K("LEFT_PAREN"), NumTok(1), K("COMMA"), Id("x"), K("RIGHT_PAREN")>>
\* for x in y { continue } \n try { throw x } catch (e) { } \n import m
MiscSource ==
    <<K("FOR"), Id("x"), K("IN"), Id("y"), K("LEFT_BRACE"), K("CONTINUE"), K("RIGHT_BRACE"),
      K("NEWLINE"), K("TRY"), K("LEFT_BRACE"), K("THROW"), Id("x"), K("RIGHT_BRACE"),
      K("CATCH"), K("LEFT_PAREN"), Id("e"), K("RIGHT_PAREN"), K("LEFT_BRACE"),
      K("RIGHT_BRACE"), K("NEWLINE"), K("IMPORT"), Id("m")>>

Sources == {VarSource, ClassSource, IfSource, WhileSource, FuncSource, ExprSource, MiscSource}

Alphabet ==
    {K(t) : t \in {"VAR", "FUNC", "CLASS", "IF", "ELSE", "ELIF", "WHILE", "FOR", "IN", "TRY",
                   "CATCH", "THROW", "RETURN", "BREAK", "IMPORT", "THIS", "TRUE", "NIL",
                   "EQUAL", "PLUS", "STAR", "LESS", "BANG", "DOT", "COMMA", "COLON",
                   "SEMICOLON", "NEWLINE", "LEFT_PAREN", "RIGHT_PAREN", "LEFT_BRACE",
                   "RIGHT_BRACE", "LEFT_BRACKET", "RIGHT_BRACKET"}}
    \cup {Id("x"), NumTok(1), StrTok("s")}

ShortAlphabet ==
    {K(t) : t \in {"VAR", "FUNC", "CLASS", "NEWLINE", "EQUAL", "LEFT_PAREN", "RIGHT_PAREN",
                   "LEFT_BRACE", "RIGHT_BRACE"}}
    \cup {Id("x"), NumTok(1)}

Without(s, i) == SubSeq(s, 1, i - 1) \o SubSeq(s, i + 1, Len(s))
Variants(s) ==
    {SubSeq(s, 1, n) : n \in 0..Len(s)}
    \cup {Without(s, i) : i \in DOMAIN s}
    \cup {[s EXCEPT ![i] = t] : i \in DOMAIN s, t \in Alphabet}

\* var v<i> = <i>;
VarName(i) == "v" \o FormatD(i)
VarDecl(i) == <<K("VAR"), Id(VarName(i)), K("EQUAL"), NumTok(i), K("SEMICOLON")>>
RECURSIVE VarDecls(_)
\* n declarations, one per line
VarDecls(n) ==
    IF n = 0 THEN <<>>
    ELSE IF n = 1 THEN VarDecl(1)
    ELSE VarDecls(n - 1) \o <<K("NEWLINE")>> \o VarDecl(n)
Newlines(k) == [i \in 1..k |-> K("NEWLINE")]
\* n declarations with newlines before the first and after the last
VarDeclSource(n, lead, trail) == Newlines(lead) \o VarDecls(n) \o Newlines(trail)
VarDeclSources == {VarDeclSource(n, lead, trail) : n \in 0..MaxLen, lead \in 0..1, trail \in 0..1}

\* 1 <o1> 2 <o2> 3
ChainOperators == {"PLUS", "MINUS", "STAR"}
InfixSource(o1, o2) == <<NumTok(1), K(o1), NumTok(2), K(o2), NumTok(3)>>
InfixSources == {InfixSource(o1, o2) : o1, o2 \in ChainOperators}

\* the statements b1 ... bn of a block body, one identifier each, and their
\* tokens with a ';' between two statements
BodyName(i) == "b" \o FormatD(i)
RECURSIVE BodyTokens(_)
BodyTokens(n) ==
    IF n = 0 THEN <<>>
    ELSE IF n = 1 THEN <<Id(BodyName(1))>>
    ELSE BodyTokens(n - 1) \o <<K("SEMICOLON"), Id(BodyName(n))>>
Braced(body) == <<K("LEFT_BRACE")>> \o body \o <<K("RIGHT_BRACE")>>
\* func f() { b1; ...; bn }
FuncBlockSource(n) ==
    <<K("FUNC"), Id("f"), K("LEFT_PAREN"), K("RIGHT_PAREN")>> \o Braced(BodyTokens(n))
\* if (c) { b1; ...; bn }
IfBlockSource(n) ==
    <<K("IF"), K("LEFT_PAREN"), Id("c"), K("RIGHT_PAREN")>> \o Braced(BodyTokens(n))
\* if (c) { b1; ...; bn } else { b1; ...; bm }
IfElseBlockSource(n, m) == IfBlockSource(n) \o <<K("ELSE")>> \o Braced(BodyTokens(m))
BlockSources ==
    {FuncBlockSource(n) : n \in 0..MaxLen}
    \cup {IfBlockSource(n) : n \in 0..MaxLen}
    \cup {IfElseBlockSource(n, m) : n \in 0..MaxLen, m \in 0..MaxLen}

\* func f() { { b1; ...; bn  then k empty lines  } }
SeparatorBlock(n, k) ==
    <<K("FUNC"), Id("f"), K("LEFT_PAREN"), K("RIGHT_PAREN")>>
    \o Braced(Braced(BodyTokens(n) \o Newlines(k)))
\* blocks of at most one statement whose empty lines stay below, reach and
\* pass the iteration ceiling of a block
SeparatorSources ==
    {SeparatorBlock(n, k) : n \in 0..1,
                            k \in {maxBlockIterations - MaxLen, maxBlockIterations + 1}}

\* . , . , ... : more malformed statements than the parser keeps diagnostics
ErrorFlood ==
    [i \in 1..(2 * maxErrors + MaxLen) |-> IF i % 2 = 1 THEN K("DOT") ELSE K("COMMA")]

TokenStreams ==
    UNION {Variants(s) : s \in Sources}
    \cup UNION {[1..n -> ShortAlphabet] : n \in 0..MaxLen}
    \cup {ErrorFlood}
    \cup VarDeclSources
    \cup InfixSources
    \cup BlockSources
    \cup SeparatorSources

(***************************************************************************)
(* ParseProgramWithTimeout as a state machine: one step per iteration of   *)
(* its statement loop.  A parser caught in the class-body loop goes on     *)
(* with iterations of that loop and nothing else.                          *)
(***************************************************************************)
\* New: a parser with curToken on the first token
NewParser == [pos |-> 1, errors |-> <<>>, stuck |-> FALSE, stmts |-> <<>>, iterations |-> 0]

ParseInit ==
    /\ toks \in TokenStreams
    /\ ps = NewParser
    /\ ppc = "start"

\* the loop that skips the NEWLINE tokens at the head of the stream
SkipLeadingNewlines ==
    /\ ppc = "start"
    /\ ps' = skipNewlines(ps)
    /\ ppc' = "loop"
    /\ UNCHANGED <<toks, opVars, evVars>>

\* one iteration of the statement loop
ParseTopStatement ==
    /\ ppc = "loop"
    /\ ~curTokenIs(ps, "EOF")
    /\ \E p1 \in {[ps EXCEPT !.iterations = @ + 1]} :
         IF p1.iterations > maxIterations
         THEN /\ ps' = addError(p1, "too many iterations - possible infinite loop")
              /\ ppc' = "done"
         ELSE \E s \in {p_parseStatement(p1)} :
              \E p2 \in {IF s.node.kind = "nil" THEN s.p
                         ELSE [s.p EXCEPT !.stmts = Append(@, s.node)]} :
              \E p3 \in {IF curToken(p2).type = curToken(ps).type THEN nextToken(p2) ELSE p2} :
                IF s.p.stuck
                THEN ps' = s.p /\ ppc' = "spin"
                ELSE IF Len(p3.stmts) > maxStatements
                THEN ps' = addError(p3, "too many statements") /\ ppc' = "done"
                ELSE ps' = p3 /\ ppc' = "loop"
    /\ UNCHANGED <<toks, opVars, evVars>>

\* the deadline of the context has passed when an iteration begins
DeadlinePassed ==
    /\ ppc = "loop"
    /\ ~curTokenIs(ps, "EOF")
    /\ ps.iterations + 1 <= maxIterations
    /\ ps' = addError([ps EXCEPT !.iterations = @ + 1], "parsing timeout")
    /\ ppc' = "done"
    /\ UNCHANGED <<toks, opVars, evVars>>

\* curToken is EOF: the loop ends and the program is returned
EndOfInput ==
    /\ ppc = "loop"
    /\ curTokenIs(ps, "EOF")
    /\ ppc' = "done"
    /\ UNCHANGED <<toks, ps, opVars, evVars>>

\* one more iteration of the class-body loop at the position it cannot leave
ClassBodySpin ==
    /\ ppc = "spin"
    /\ ps' = [p_parseClassMember([ps EXCEPT !.stuck = FALSE], <<>>, <<>>).p EXCEPT !.stuck = TRUE]
    /\ UNCHANGED <<toks, ppc, opVars, evVars>>

(***************************************************************************)
(* Specifications.  Each one runs one part of the program and keeps the    *)
(* variables of the other parts at rest.                                   *)
(***************************************************************************)
ParseIdle ==
    /\ toks = <<>>
    /\ ps = NewParser
    /\ ppc = "idle"

\* EvaluateProgram on the programs of ProgSpace
Init == EvalInit /\ OpsIdle /\ ParseIdle
Next == TopStatement \/ EndOfStatements \/ CallMain \/ SkipMain
Spec == Init /\ [][Next]_vars

\* the operator table
InitOps == OpsInit /\ EvalIdle /\ ParseIdle
NextOps == ApplyInfix \/ ApplyBuiltin
SpecOps == InitOps /\ [][NextOps]_vars

\* ParseProgram on the streams of TokenStreams
InitParse == ParseInit /\ OpsIdle /\ EvalIdle
NextParse ==
    SkipLeadingNewlines \/ ParseTopStatement \/ DeadlinePassed \/ EndOfInput \/ ClassBodySpin
SpecParse == InitParse /\ [][NextParse]_vars

(***************************************************************************)
(* Parse, then evaluate: the program ParseProgram returns is handed to    *)
(* EvaluateProgram of a new evaluator, whatever diagnostics the parser has *)
(* recorded (runFile of the command does so only when there are none).     *)
(* The deadline is taken not to pass, and a parser caught in the           *)
(* class-body loop returns no program.                                     *)
(***************************************************************************)
RunAlphabet ==
    {K(t) : t \in {"FUNC", "CLASS", "FOR", "WHILE", "IF", "TRY", "IMPORT", "VAR", "THROW",
                   "LEFT_PAREN", "RIGHT_PAREN", "LEFT_BRACE", "RIGHT_BRACE"}}
    \cup {Id("main"), NumTok(1)}

\* func main() { }  and  func main() { { } }
MainSources ==
    {<<K("FUNC"), Id("main"), K("LEFT_PAREN"), K("RIGHT_PAREN")>> \o Braced(body) :
        body \in {<<>>, Braced(<<>>)}}

RunSources == UNION {[1..n -> RunAlphabet] : n \in 0..MaxLen} \cup MainSources

RunInit ==
    /\ toks \in RunSources
    /\ ps = NewParser
    /\ ppc = "start"
    /\ EvalIdle
    /\ OpsIdle

\* NewEvaluator().EvaluateProgram(program), program being what ParseProgram
\* returned
StartEvaluation ==
    /\ ppc = "done"
    /\ pc = "idle"
    /\ prog' = [prog EXCEPT !.sc = "parsed"]
    /\ ev' = NewEvaluator
    /\ pc' = "run"
    /\ idx' = 1
    /\ UNCHANGED <<ret, failed, opVars, paVars>>

NextRun ==
    \/ SkipLeadingNewlines \/ ParseTopStatement \/ EndOfInput
    \/ StartEvaluation
    \/ TopStatement \/ EndOfStatements \/ CallMain \/ SkipMain
SpecRun == RunInit /\ [][NextRun]_vars

(***************************************************************************)
(* Properties of EvaluateProgram (specification Spec).                     *)
(***************************************************************************)
Root(name) == Get(ev.envs, 1, name)
Traced(id) == \E k \in DOMAIN ev.trace : ev.trace[k] = id

\* C1: every block, function call, bound-method call and instantiation
\* returns, normally or with an error, with the environment that was current
\* when it was entered; between top-level statements and after
\* EvaluateProgram has returned the current environment is the root.
C1_ScopeRestored ==
    /\ ev.scopeOK
    /\ pc \in {"run", "main", "done"} => ev.env = 1

\* a bound-method call failed inside the if block of its body and the run
\* ended in the root environment
C1_Witness ==
    /\ prog.sc = "scope" /\ pc = "done" /\ failed = 8
    /\ Traced("s5.m.if.boom") /\ ev.env = 1 /\ Len(ev.envs) > 1

\* C3: when a top-level statement fails, EvaluateProgram is over at once:
\* the failing statement is the last one executed, no later top-level
\* statement runs, main is not called, and exactly that one error is returned.
C3_FailFast ==
    failed # 0 =>
        /\ pc = "done"
        /\ idx = failed
        /\ Len(ret) = 1
        /\ ev.mainCalls = 0
        /\ \A i \in (failed + 1)..Len(Statements) : ~Traced(Statements[i].id)

\* a call of f failed at the fifth statement of a program that defines main
C3_Witness ==
    /\ prog.sc = "scope" /\ pc = "done" /\ failed = 5
    /\ Root("main").found /\ Root("main").val.kind = "Function"
    /\ ret = <<"variable no definida: undefinedVar">>

\* the environment a closure bound at top level captured
Captured(name) == ev.funcs[Root(name).val.n].env

\* C4: the closures returned by two calls of make captured two different
\* environments, and whatever calls of one closure were made, the other one
\* still sees the value its own call of make bound and returns a result
\* computed from it.
C4_ClosuresIndependent ==
    (prog.sc = "closure" /\ Root("f1").found /\ Root("f2").found) =>
        /\ Captured("f1") # Captured("f2")
        /\ Get(ev.envs, Captured("f1"), "c").val = IntV(prog.a)
        /\ Get(ev.envs, Captured("f2"), "c").val = IntV(prog.b)
        /\ Get(ev.envs, Captured("f2"), "g").val = IntV(10)
        /\ Root("r3").found => Root("r3").val = IntV(prog.b + 1)
        /\ (Root("r4").found /\ prog.c # 0) => Root("r4").val = IntV(prog.b + 1)

\* f1 was called twice, then f2, then f2 again, with different start values
C4_Witness ==
    /\ prog.sc = "closure" /\ pc = "done" /\ prog.a # prog.b /\ prog.c = 1
    /\ Root("r2").found /\ Root("r4").found

\* C5: a variable declared before a while loop and assigned by a statement
\* executed in the loop's body holds, once the loop has exited, the last
\* value assigned to it in the loop.
C5_LoopWritesPersist == ~ev.lost

\* C6: the statement executed next after a break inside an if of a while
\* body is the statement that follows the loop: no other statement of the
\* body and no further iteration is executed.
C6_BreakLeavesWhile ==
    \A k \in 1..(Len(ev.trace) - 1) : ev.trace[k] = "brk" => ev.trace[k + 1] = "after"

\* the break sat in the else branch of an if nested in the if of the second
\* iteration, and the statement after the loop has run
C6_Witness ==
    /\ prog.sc = "break" /\ prog.b = 2 /\ prog.a = 2 /\ pc = "done"
    /\ Traced("brk") /\ Root("seen").val = IntV(1) /\ Root("i").val = IntV(2)

\* C7: after one of two instances of a class appended to its List default
\* field, the field of the other instance is still empty.
C7_InstancesIsolated ==
    (prog.sc = "isolation" /\ Root("seen").found) => Root("seen").val = IntV(0)

\* C8: a function that reads a name bound only in the environment of its
\* caller fails with an undefined-variable error, from whatever place of the
\* caller it is called; a name bound where the function was defined resolves.
C8_LexicalScoping ==
    (prog.sc = "lexical" /\ pc = "done") =>
        IF prog.a \in {0, 1}
        THEN /\ ret = <<"variable no definida: " \o LexicalName(prog)>>
             /\ ~Root("r").found
        ELSE ret = <<>> /\ Root("r").val = IntV(1)

\* f, called from an if block of caller, read caller's local z and failed
C8_Witness ==
    /\ prog.sc = "lexical" /\ pc = "done" /\ prog.a = 1 /\ prog.b = 1
    /\ Traced("l2.ret") /\ ret # <<>>

\* main is bound in the root scope to a function declared without parameters
ZeroArgMain ==
    /\ Root("main").found
    /\ Root("main").val.kind = "Function"
    /\ ev.funcs[Root("main").val.n].params = <<>>

\* C12: when all top-level statements have executed without error, the run
\* has invoked main once if main is bound to a callable declared with zero
\* parameters, and not at all otherwise (main with parameters, main bound
\* to a non-callable value, no main).
C12_AutomaticMain ==
    (pc = "done" /\ failed = 0) =>
        ev.mainCalls = (IF ZeroArgMain THEN 1 ELSE 0)

\* the statement loop is about to execute a top-level import
ImportStep == pc = "run" /\ idx <= Len(Statements) /\ Statements[idx].kind = "Import"
\* an earlier top-level import of the run named the same module
ImportedBefore(module) ==
    \E i \in 1..(idx - 1) : Statements[i].kind = "Import" /\ Statements[i].module = module

\* C13: an import of the module of the runtime returns no error, and leaves
\* every environment as it was when the module was imported before; an
\* import of any other name returns an error unless an earlier import bound
\* that name, also when the name is bound as a builtin or a user variable.
C13_ImportResolution ==
    [][ImportStep =>
          IF Statements[idx].module = "zyloruntime"
          THEN ret' = ret /\ (ImportedBefore("zyloruntime") => ev'.envs = ev.envs)
          ELSE ~ImportedBefore(Statements[idx].module) => ret' # ret]_vars

\* C14: a throw executed outside any try ends the run with an error: no
\* statement after it is executed, neither in its block nor at top level.
C14_UncaughtThrowEndsRun ==
    (prog.sc = "throw" /\ Traced("x2")) =>
        /\ pc = "done" /\ ret # <<>>
        /\ ~Traced("x2.next") /\ ~Traced("x3")

\* C15: when the body of a try statement fails (here by a division by
\* zero) the catch block is not executed, the run returns no error, and the
\* statement after the try is executed.
C15_TryIgnoresError ==
    (prog.sc = "try" /\ prog.a = 0 /\ Traced("y2.div")) =>
        /\ ~Traced("y2.catch")
        /\ ret = <<>>
        /\ pc = "done" => Traced("y3")

\* C20: whatever program the parser returned, with its absent statements,
\* bodies and names, EvaluateProgram never faults: an absent node is
\* skipped or reported as an error value.
C20_AbsentNodesNeverFault == ~ev.fault

\* C21: no binding of any environment holds a Break or Continue sentinel,
\* also when break or continue is executed in a function body outside any
\* loop.
C21_SentinelsTransient ==
    \A e \in DOMAIN ev.envs : \A name \in DOMAIN ev.envs[e].vars :
        ev.envs[e].vars[name].kind \notin {"Break", "Continue"}

\* C22: the body of a while loop, of a for-in loop and of an if runs in the
\* environment that encloses the construct: a variable declared in the body
\* is bound there once the body has run, and reading it after the construct
\* succeeds.
C22_BodiesUseEnclosingScope ==
    (prog.sc = "bodyscope" /\ Traced("q2.inner")) =>
        /\ Root("inner") = [found |-> TRUE, val |-> IntV(5 + prog.b)]
        /\ ret = <<>>
        /\ pc = "done" => Root("seen") = [found |-> TRUE, val |-> IntV(5 + prog.b)]

\* the number of times statement id was executed among the first k of the run
Executions(id, k) == Cardinality({i \in 1..k : ev.trace[i] = id})

\* the statement executed after the k-th of the run is the first of the
\* loop's body when fewer than Len(JumpItems) iterations have started, else
\* the statement that follows the loop
NextIteration(pre, follow, k) ==
    ev.trace[k + 1] = IF Executions(pre \o ".it", k) < Len(JumpItems)
                      THEN pre \o ".it" ELSE follow

\* C23: the statement executed next after a continue in the body of a while
\* or for-in loop, directly in the body or inside nested ifs, is the first
\* statement of the next iteration (or the statement after the loop when no
\* iteration is left): the rest of the iteration is skipped; the statement
\* executed next after a break is the statement after the loop.
C23_ContinueEndsIteration ==
    \A k \in 1..(Len(ev.trace) - 1) :
        /\ ev.trace[k] = "jw.cont" => NextIteration("jw", "jf", k)
        /\ ev.trace[k] = "jf.cont" => NextIteration("jf", "j.after", k)
        /\ ev.trace[k] = "jw.brk" => ev.trace[k + 1] = "jf"
        /\ ev.trace[k] = "jf.brk" => ev.trace[k + 1] = "j.after"

\* both loops continued from a nested if in their second iteration, ran the
\* rest of the body in the two other iterations, and the run went on
C23_Witness ==
    /\ prog.sc = "jump" /\ prog.a = 0 /\ prog.b = 2 /\ prog.c = 1 /\ pc = "done"
    /\ Executions("jw.cont", Len(ev.trace)) = 1 /\ Executions("jf.cont", Len(ev.trace)) = 1
    /\ Executions("jw.it", Len(ev.trace)) = Len(JumpItems)
    /\ Executions("jf.it", Len(ev.trace)) = Len(JumpItems)
    /\ Executions("jw.rest", Len(ev.trace)) = Len(JumpItems) - 1
    /\ Executions("jf.rest", Len(ev.trace)) = Len(JumpItems) - 1
    /\ Traced("j.after")

\* the value of the last statement of ReturnBody
LastOfBody(p) ==
    CASE p.a = 0 -> IntV(5 + p.b)
      [] p.a = 1 -> IntV(7)
      [] p.a = 2 -> NullV
      [] OTHER -> IntV(9)

\* C24: a return statement only yields its value as the statement's result:
\* the statements after it in the block, and after the if that contains it,
\* are executed, and the call's result is the value of the last statement
\* executed in the body.
C24_ReturnDoesNotUnwind ==
    (prog.sc = "return" /\ Traced("r.ret")) =>
        /\ ret = <<>>
        /\ Root("x") = [found |-> TRUE, val |-> LastOfBody(prog)]
        /\ prog.a > 0 =>
              \E k \in 1..(Len(ev.trace) - 1) :
                  /\ ev.trace[k] = "r.ret" /\ ev.trace[k + 1] = "r.tail"

\* the statement after `return 5` ran and the call returned its value, 7
C24_Witness ==
    /\ prog.sc = "return" /\ prog.a = 1 /\ prog.b = 0 /\ pc = "done"
    /\ Traced("r.ret") /\ Traced("r.tail") /\ Root("x").val = IntV(7)

\* C25: whatever the variable that holds an instance is called, obj.name is
\* the instance's field name when it has one, else the class's method name
\* bound to the instance, whose call runs the body with `this` being the
\* instance, else an error.
C25_MemberLookupOrder ==
    (prog.sc = "member" /\ Traced("m3")) =>
        CASE prog.c = 0 -> ret = <<>> /\ Root("got") = [found |-> TRUE, val |-> IntV(10 + prog.b)]
          [] prog.c = 1 -> /\ ret = <<>> /\ Traced("m.body")
                           /\ Root("got") = [found |-> TRUE, val |-> IntV(10 + prog.b)]
          [] OTHER -> ret # <<>> /\ ~Root("got").found

\* C28: var, assignment, function and class declarations, import and the
\* for-in loop variable write the current environment only: when a block or
\* a function call has returned, every environment that existed when it was
\* entered holds the bindings it held then; the top-level x, g, K, item and
\* zyloruntime keep their values.
C28_WritesAreLocal ==
    /\ ev.frameOK
    /\ (prog.sc = "frame" /\ Traced("fr.w")) =>
          /\ ret = <<>>
          /\ Root("x").val = IntV(1) /\ Root("g").val = IntV(2)
          /\ Root("K").val = IntV(3) /\ Root("item").val = IntV(4)
          /\ Root("zyloruntime") = Get(NewEvaluator.envs, 1, "zyloruntime")

\* an assignment to the top-level x ran in the body of a called function and
\* the program went on with x unchanged
C28_Witness ==
    /\ prog.sc = "frame" /\ prog.a = 1 /\ prog.b = 1 /\ pc = "done"
    /\ Traced("fr.w") /\ Traced("fr7") /\ Root("x").val = IntV(1) /\ ev.frameOK

\* every instance has the fields its class has attributes, each field being
\* the attribute's value
FieldsAreDefaults ==
    \A i \in DOMAIN ev.insts : ev.insts[i].fields = ev.classes[ev.insts[i].class].attrs

\* a step leaves the instances and the classes there are as they are
InstancesKept ==
    /\ \A i \in DOMAIN ev.insts : i \in DOMAIN ev'.insts /\ ev'.insts[i] = ev.insts[i]
    /\ \A c \in DOMAIN ev.classes : c \in DOMAIN ev'.classes /\ ev'.classes[c] = ev.classes[c]

\* C29: the field names of an instance are the attribute names of its class
\* and each field is the value the class statement stored as the default;
\* no statement, init and assignment expressions included, adds, removes or
\* rebinds a field: box.n read after the instantiation is the default.
C29_FieldsFixed ==
    /\ [](FieldsAreDefaults
          /\ ((prog.sc = "fields" /\ Root("seen").found) => Root("seen").val = IntV(1 + prog.b)))
    /\ [][InstancesKept]_vars

\* Box(9) ran an init that only declared a local n, box.items was appended
\* to, and box.n read afterwards is the class default
C29_Witness ==
    /\ prog.sc = "fields" /\ prog.a = 4 /\ prog.c = 0 /\ pc = "done" /\ ret = <<>>
    /\ Traced("fl.w") /\ Traced("fl3")
    /\ Root("box").val.kind = "Instance" /\ Root("seen").val = IntV(1 + prog.b)
    /\ DOMAIN ev.insts[Root("box").val.n].fields = {"n", "items"}

\* C30: try(body, handler) calls body with no arguments; when that fails
\* the handler is called once with the error message as a String and the
\* result is Null without an error, or the handler's own error when the
\* handler fails; when body succeeds the handler is not called and the
\* result is body's; the current environment is the one before the call.
C30_BuiltinTry ==
    (prog.sc = "trycall" /\ Traced("tc3")) =>
        /\ ev.env = 1 /\ ev.scopeOK
        /\ IF prog.a <= 1
           THEN /\ ev.handlerCalls = 1
                /\ Traced("tc.handler") /\ ~Traced("tc.dead")
                /\ CASE prog.b = 0 -> ret = <<>> /\ Root("got") = [found |-> TRUE, val |-> NullV]
                     [] prog.b = 1 -> ret = <<"variable no definida: absent">> /\ ~Root("got").found
                     [] OTHER -> /\ Traced("tc.same")
                                 /\ ret = <<"variable no definida: reached">> /\ ~Root("got").found
           ELSE /\ ev.handlerCalls = 0 /\ ~Traced("tc.handler")
                /\ ret = <<>> /\ Root("got") = [found |-> TRUE, val |-> IntV(5)]

\* the body failed inside an if block, the handler ran once and succeeded,
\* try returned Null and the program went on
C30_Witness ==
    /\ prog.sc = "trycall" /\ prog.a = 1 /\ prog.b = 0 /\ pc = "done" /\ ret = <<>>
    /\ ev.handlerCalls = 1 /\ Traced("tc.handler") /\ Traced("tc4")
    /\ Root("got").val = NullV /\ ev.env = 1

(***************************************************************************)
(* Properties of the operator table (specification SpecOps).               *)
(***************************************************************************)
\* C9: dividing a number by Integer 0 or Float 0, by the operator or by the
\* divide builtin, returns the division-by-zero error and no value.
C9_DivisionByZeroIsError ==
    (opDone /\ operator = "/" /\ IsNum(left) /\ IsNum(right) /\ Num(right) = 0) =>
        result = Err("división por cero")

\* divide(0.5, 0.0) returned the error
C9_Witness ==
    /\ opDone /\ operator = "/" /\ via = "builtin"
    /\ left = FloatV(1, 2) /\ right = FloatV(0, 2) /\ ~result.ok

\* the text "+" puts in the place of an operand: a String as it is, any
\* other value as it is displayed
Stringified(v) == IF v.kind = "String" THEN v.s ELSE Inspect(v, OpsLists)

\* C10: "+" with at least one String operand returns the String made of the
\* two operands in order, the other one stringified, and never an error;
\* Integer + Integer is an Integer and a sum with a Float operand is a Float.
C10_PlusConcatenates ==
    (opDone /\ operator = "+") =>
        IF left.kind = "String" \/ right.kind = "String"
        THEN result = Ok(StrV(Stringified(left) \o Stringified(right)))
        ELSE IF left.kind = "Integer" /\ right.kind = "Integer"
        THEN result.ok /\ result.val.kind = "Integer"
        ELSE (IsNum(left) /\ IsNum(right)) => (result.ok /\ result.val.kind = "Float")

\* the values the truthiness table of the language calls false
Falsy(v) == v = NullV \/ v = BoolV(FALSE) \/ v = IntV(0) \/ v = StrV("")

\* C11: a value used as a condition is false exactly when it is Null,
\* Boolean false, Integer 0 or the empty String, and true otherwise: so
\* "&&" is true exactly when neither operand is one of those four, and "||"
\* exactly when not both are.
C11_TruthinessTable ==
    (opDone /\ via = "infix" /\ operator \in {"&&", "||"}) =>
        result = Ok(BoolV(IF operator = "&&" THEN ~Falsy(left) /\ ~Falsy(right)
                                             ELSE ~Falsy(left) \/ ~Falsy(right)))

(***************************************************************************)
(* Properties of ParseProgram (specification SpecParse).                   *)
(***************************************************************************)
\* the deadline passed during the parse
TimedOut == \E i \in DOMAIN ps.errors : ps.errors[i] = "parsing timeout"

\* C17: a source of n declarations "var <name> = <integer>;", one per line,
\* with or without a newline before the first and after the last one, parses
\* (when the deadline does not pass) to exactly n statements, the Var
\* statements of those names and Integer literals in source order, with no
\* diagnostics.
C17_VarDeclarationsParse ==
    \A n \in 0..MaxLen, lead \in 0..1, trail \in 0..1 :
        (toks = VarDeclSource(n, lead, trail) /\ ppc = "done" /\ ~TimedOut) =>
            /\ ps.errors = <<>>
            /\ Len(ps.stmts) = n
            /\ \A i \in 1..n :
                  /\ i <= Len(ps.stmts)
                  /\ ps.stmts[i].kind = "Var"
                  /\ ps.stmts[i].name = VarName(i)
                  /\ ps.stmts[i].value = N(i)

\* the expression 1 <o1> 2 <o2> 3 is by the precedences of its operators:
\* the second operator takes 2 when it binds tighter than the first, else
\* the chain groups to the left
Grouped(o1, o2) ==
    IF precedences(o2) > precedences(o1)
    THEN Infix(Lexeme(o1), N(1), Infix(Lexeme(o2), N(2), N(3)))
    ELSE Infix(Lexeme(o2), Infix(Lexeme(o1), N(1), N(2)), N(3))

\* C18: "a + b * c" with literal operands parses (when the deadline does not
\* pass) to one expression statement Infix(+, a, Infix(*, b, c)) with no
\* diagnostics, and a chain of equal precedence groups to the left.
C18_OperatorPrecedence ==
    \A o1 \in ChainOperators, o2 \in ChainOperators :
        (toks = InfixSource(o1, o2) /\ ppc = "done" /\ ~TimedOut) =>
            /\ ps.errors = <<>>
            /\ Len(ps.stmts) = 1
            /\ ps.stmts[1].kind = "ExprStmt"
            /\ ps.stmts[1].expr = Grouped(o1, o2)

\* block is a block of the n expression statements b1 ... bn
BodyIs(block, n) ==
    /\ block.kind = "Block"
    /\ Len(block.stmts) = n
    /\ \A i \in 1..n : /\ block.stmts[i].kind = "ExprStmt"
                        /\ block.stmts[i].expr = Ident(BodyName(i))

\* the parse ended, not by the deadline, with one statement and no diagnostics
OneCleanStatement == ps.errors = <<>> /\ Len(ps.stmts) = 1

\* C19: a function declaration "func f() { ... }", an "if (c) { ... }" and an
\* "if (c) { ... } else { ... }" each parse (when the deadline does not pass)
\* to exactly one statement of that kind, with no diagnostics, whose blocks
\* hold the statements of the bodies; the alternative of an if is absent
\* exactly when there is no else.
C19_BlockStatementsParse ==
    (ppc = "done" /\ ~TimedOut) =>
        \A n \in 0..MaxLen :
            /\ toks = FuncBlockSource(n) =>
                  /\ OneCleanStatement
                  /\ ps.stmts[1].kind = "Func" /\ ps.stmts[1].name = "f"
                  /\ BodyIs(ps.stmts[1].body, n)
            /\ toks = IfBlockSource(n) =>
                  /\ OneCleanStatement
                  /\ ps.stmts[1].kind = "If"
                  /\ BodyIs(ps.stmts[1].cons, n)
                  /\ ps.stmts[1].alt = Absent
            /\ \A m \in 0..MaxLen :
                  toks = IfElseBlockSource(n, m) =>
                      /\ OneCleanStatement
                      /\ ps.stmts[1].kind = "If"
                      /\ BodyIs(ps.stmts[1].cons, n)
                      /\ BodyIs(ps.stmts[1].alt, m)

\* the diagnostics that end a parse before the end of the input
TerminalMessages ==
    {"too many iterations - possible infinite loop", "too many statements", "parsing timeout"}

\* C26: when ParseProgram has returned with curToken not at EOF, stopped by
\* an iteration ceiling or by the deadline, the diagnostics contain one of
\* the terminal messages, whatever was recorded before.
C26_ForcedStopDiagnosed ==
    (ppc = "done" /\ ~curTokenIs(ps, "EOF")) =>
        \E i \in DOMAIN ps.errors : ps.errors[i] \in TerminalMessages

\* the diagnostics of the iteration ceilings of the statement loops
CeilingMessages ==
    {"too many iterations in parseBlockStatement", "too many iterations - possible infinite loop"}

\* C27: a source whose blocks hold at most maxBlockIterations statements and
\* whose top level holds at most maxIterations statements gets no
\* iteration-ceiling diagnostic, however many separators it contains, and is
\* parsed to its end when the deadline does not pass.
C27_CeilingsCountStatements ==
    /\ \A i \in DOMAIN ps.errors : ps.errors[i] \notin CeilingMessages
    /\ \A n \in 0..1, k \in {maxBlockIterations - MaxLen, maxBlockIterations + 1} :
          (toks = SeparatorBlock(n, k) /\ ppc = "done" /\ ~TimedOut) =>
              /\ curTokenIs(ps, "EOF")
              /\ Len(ps.stmts) >= 1 /\ ps.stmts[1].kind = "Func"
              /\ ps.stmts[1].body.kind = "Block" /\ Len(ps.stmts[1].body.stmts) = n

\* C16: the diagnostics list never has more than maxErrors entries, and
\* once it has maxErrors entries no step of the parser changes it: further
\* diagnostics are dropped, the recorded ones and their order stay.
C16_DiagnosticsCapped ==
    /\ [](Len(ps.errors) <= maxErrors)
    /\ [][Len(ps.errors) = maxErrors => ps'.errors = ps.errors]_vars

\* the list filled up before the end of a stream in which every statement
\* up to the last is malformed, and the parse went on to the end
C16_Witness ==
    /\ toks = ErrorFlood
    /\ ppc = "done" /\ curTokenIs(ps, "EOF")
    /\ Len(ps.errors) = maxErrors
    /\ ps.iterations > maxErrors
    /\ ps.errors[1] = "dot not allowed in expression"

\* C2: ParseProgram returns for every token stream: no loop of the parser
\* makes an iteration that consumes no token and leaves the loop running.
C2_ParserTerminates == ppc # "spin"

====
